---- MODULE Spec2Model ----
(***************************************************************************)
(* Protocol adapter layer of sparkle: the WebDriver session adapter, the   *)
(* auto-waiting Locator, the FrameLocator / ElementInFrame context manager *)
(* and the CDP load-state wait.                                            *)
(*                                                                         *)
(* Time is counted in ticks of one retry interval (100ms).  Every WebDriver*)
(* round trip is one step of the caller that issues it; the flag tf of a   *)
(* step says that the round trip failed at the transport/browser level.    *)
(***************************************************************************)
EXTENDS Integers, Sequences, FiniteSets, TLC

\* ---------------------------------------------------------------- bounds
MaxMatches == 2        \* largest number of ".item" matches in the page
MaxTimeout == 1        \* largest locator timeout, in ticks
UsizeBits == 2         \* width of usize in the model
MaxCloseCalls == 2     \* close() calls in one run
MaxWait == 6           \* largest load-state timeout, in ticks
MaxContexts == 2       \* contexts one Browser tracks
MaxPages == 2          \* pages one BrowserContext tracks

UsizeMax == 2^UsizeBits - 1
FrameTimeout == 2      \* the 30s iframe wait, in ticks
IdleTicks == 5         \* the 500ms idle sleep, in ticks
Callers == {1, 2}

VARIABLES
    driver,      \* WebDriverAdapter.driver: TRUE = Some(WebDriver), FALSE = None
    cdp,         \* WebDriverAdapter.cdp:    TRUE = Some(ChromeDevTools)
    quitCount,   \* quit requests received by the remote end
    closeCalls,  \* close() calls made so far
    scope,       \* browser: current browsing context, <<>> = top-level document
    frames,      \* browser: iframe elements present in the page
    btn,         \* browser: whether "#btn" is present inside the frames
    items,       \* browser: number of ".item" elements in the top-level document
    contexts,    \* Browser.contexts: per tracked context its pages' `closed` flags
    pc,          \* per caller: position in the running operation
    cur,         \* per caller: the running (or last) operation and its arguments
    plan,        \* per caller: frame switches still to do
    elapsed,     \* per caller: ticks since `start` of the running wait
    elem,        \* per caller: the WebElement held by the running operation
    result,      \* per caller: what the last operation returned
    inner,       \* per caller: the wrapped action's `result` awaiting the restore
    attempt,     \* per caller: outcome of the last resolve_element attempt
    reqs,        \* per caller: protocol requests issued by the running/last operation
    evals,       \* per caller: scopes in which its element queries were evaluated
    tpc,         \* per task: position in its adapter method
    tres,        \* per task: what its method returned
    lkR,         \* per RwLock: read guards held, by task
    lkW,         \* per RwLock: the task holding the write guard, or "none"
    lkQ,         \* per RwLock: the FIFO queue of waiting <<task, mode>>
    capsCached,  \* WebDriverAdapter.session_capabilities is Some(..)
    wire,        \* requests sent to the remote end and not yet answered
    wpc,         \* load-state wait: position in wait_for_load_state ("idle" = not running)
    wstate,      \* load-state wait: the requested WaitUntilState
    wres,        \* load-state wait: what wait_for_load_state_via_cdp returned
    snapshot,    \* LoadStateSnapshot
    inflight,    \* request ids sent and not finished
    idle_timer,  \* <<>> = None, <<n>> = the idle sleep fires in n ticks
    deadline,    \* ticks left until `deadline`
    silence,     \* ticks since the last message was read (at most IdleTicks)
    lastMsg,     \* the last message read from the websocket
    scn,         \* progress of the sequence req(A) req(B) fin(A) fin(B); -1 = another run
    ready,       \* browser: document.readyState of the page
    wout,        \* load-state wait: what wait_for_load_state returned ("Pending" while it runs)
    wasReached,  \* load-state wait: the page had reached the requested state at the call
    wmsg,        \* load-state wait: the message of the error wait_for_load_state returned
    wquery       \* load-state wait: outcome of its last WebDriver query ("None" = not sent)

sessionVars == <<driver, cdp, quitCount, closeCalls>>
browserVars == <<scope, frames, btn, items>>
lockVars == <<tpc, tres, lkR, lkW, lkQ, capsCached, wire>>
trackerVars == <<wpc, wstate, wres, snapshot, inflight, idle_timer, deadline, silence,
                 lastMsg, scn, ready, wout, wasReached, wmsg, wquery>>
restVars == <<lockVars, trackerVars>>
callerVars == <<pc, cur, plan, elapsed, elem, inner, result, attempt, reqs, evals>>

\* ---------------------------------------------------------------- values
F1 == "iframe#f1"
F2 == "iframe#f2"
FrameSelectors == {F1, F2}
Selectors == {"#main", ".item", ".none", "#btn"}

R(kind, msg, val) == [kind |-> kind, msg |-> msg, val |-> val]
NoResult == R("None", "", 0)
NoElem == [sc |-> <<>>, sel |-> "", idx |-> 0]
NoCall == [op |-> "none", sel |-> "", fl |-> <<>>, nth |-> <<>>, timeout |-> 0,
           ctor |-> ""]
NoAttempt == [kind |-> "None", idx |-> 0, k |-> 0]

Min(a, b) == IF a < b THEN a ELSE b

\* Number of elements the browser matches for selector sel in context sc.
Count(sel, sc) ==
    CASE sel = "#main" -> IF sc = <<>> THEN 1 ELSE 0
      [] sel = ".item" -> IF sc = <<>> THEN items ELSE 0
      [] sel = "#btn"  -> IF sc # <<>> /\ btn THEN 1 ELSE 0
      [] sel = F1      -> IF sc = <<>> /\ F1 \in frames THEN 1 ELSE 0
      [] sel = F2      -> IF sc = <<F1>> /\ F2 \in frames THEN 1 ELSE 0
      [] OTHER         -> 0

\* ---------------------------------------------------------------- adapter
\* driver() handing out the guard without looking at the Option.
driver_guard_unchecked == "Ok"

\* WebDriverAdapter::driver(): the read guard, or BrowserClosed when None.
driver_guard == IF driver THEN "Ok" ELSE "BrowserClosed"

\* WebDriverAdapter::cdp(): the read guard, or BrowserClosed when None.
cdp_guard == IF cdp THEN "Ok" ELSE "BrowserClosed"

\* The requests an operation puts on the wire after `guard` was evaluated.
Issued(guard, req) == IF guard = "Ok" THEN <<req>> ELSE <<>>

\* Outcome of an operation that takes the driver guard and makes one round trip.
\* A failed round trip is Error::WebDriver, carrying the command that failed.
DriverCall(rq, tf) ==
    IF driver_guard # "Ok" THEN R("BrowserClosed", "", 0)
    ELSE IF tf THEN R("WebDriver", rq, 0)
    ELSE R("Ok", "", 0)

\* find_element_raw: one FindElement query in the current context.
find_element_raw(sel, tf) ==
    IF driver_guard # "Ok" THEN R("BrowserClosed", "", 0)
    ELSE IF tf THEN R("WebDriver", "FindElement", 0)
    ELSE IF Count(sel, scope) = 0 THEN R("ElementNotFound", sel, 0)
    ELSE R("Ok", sel, 0)

\* find_elements_raw that reports an empty match list as an error.
find_elements_raw_strict(sel, tf) ==
    IF driver_guard # "Ok" THEN R("BrowserClosed", "", 0)
    ELSE IF tf THEN R("WebDriver", "FindElements", 0)
    ELSE IF Count(sel, scope) = 0 THEN R("ElementNotFound", sel, 0)
    ELSE R("Ok", sel, Count(sel, scope))

\* find_elements_raw: one FindElements query; no match is an empty list.
find_elements_raw(sel, tf) ==
    IF driver_guard # "Ok" THEN R("BrowserClosed", "", 0)
    ELSE IF tf THEN R("WebDriver", "FindElements", 0)
    ELSE R("Ok", sel, Count(sel, scope))

Begin(c, opname, sel) ==
    cur' = [cur EXCEPT ![c] = [NoCall EXCEPT !.op = opname, !.sel = sel]]

\* Caller c moves on inside its operation.
Move(c, p, pl, el, em, inn) ==
    /\ pc' = [pc EXCEPT ![c] = p]
    /\ plan' = [plan EXCEPT ![c] = pl]
    /\ elapsed' = [elapsed EXCEPT ![c] = el]
    /\ elem' = [elem EXCEPT ![c] = em]
    /\ inner' = [inner EXCEPT ![c] = inn]
    /\ UNCHANGED result

\* The operation of caller c returns r; its locals are dropped.
Return(c, r) ==
    /\ pc' = [pc EXCEPT ![c] = "idle"]
    /\ plan' = [plan EXCEPT ![c] = <<>>]
    /\ elapsed' = [elapsed EXCEPT ![c] = 0]
    /\ elem' = [elem EXCEPT ![c] = NoElem]
    /\ inner' = [inner EXCEPT ![c] = NoResult]
    /\ result' = [result EXCEPT ![c] = r]

Log(c, rq) == reqs' = [reqs EXCEPT ![c] = reqs[c] \o rq]

\* An operation that is a single call: it starts, issues rq and returns r.
Single(c, opname, sel, rq, r) ==
    /\ pc[c] = "idle"
    /\ Begin(c, opname, sel)
    /\ Return(c, r)
    /\ reqs' = [reqs EXCEPT ![c] = rq]

goto(c) ==
    \E tf \in BOOLEAN :
        LET r == DriverCall("Navigate", tf) IN
        /\ Single(c, "goto", "", Issued(driver_guard, "Navigate"), r)
        /\ scope' = IF r.kind = "Ok" THEN <<>> ELSE scope
        /\ UNCHANGED <<sessionVars, frames, btn, items, contexts, evals, attempt, restVars>>

find_element(c) ==
    \E sel \in Selectors, tf \in BOOLEAN :
        /\ Single(c, "find_element", sel, Issued(driver_guard, "FindElement"),
                  find_element_raw(sel, tf))
        /\ evals' = [evals EXCEPT ![c] = IF driver THEN <<scope>> ELSE <<>>]
        /\ UNCHANGED <<sessionVars, browserVars, contexts, attempt, restVars>>

find_elements(c) ==
    \E sel \in Selectors, tf \in BOOLEAN :
        /\ Single(c, "find_elements", sel, Issued(driver_guard, "FindElements"),
                  find_elements_raw(sel, tf))
        /\ evals' = [evals EXCEPT ![c] = IF driver THEN <<scope>> ELSE <<>>]
        /\ UNCHANGED <<sessionVars, browserVars, contexts, attempt, restVars>>

\* execute_script that gives the session up when its request fails.
execute_script_poisoning(c) ==
    \E tf \in BOOLEAN :
        /\ Single(c, "execute_script", "", Issued(driver_guard, "ExecuteScript"),
                  DriverCall("ExecuteScript", tf))
        /\ driver' = (driver /\ ~tf)
        /\ UNCHANGED <<cdp, quitCount, closeCalls, browserVars, contexts, evals, attempt, restVars>>

execute_script(c) ==
    \E tf \in BOOLEAN :
        /\ Single(c, "execute_script", "", Issued(driver_guard, "ExecuteScript"),
                  DriverCall("ExecuteScript", tf))
        /\ UNCHANGED <<sessionVars, browserVars, contexts, evals, attempt, restVars>>

screenshot(c) ==
    \E tf \in BOOLEAN :
        /\ Single(c, "screenshot", "", Issued(driver_guard, "Screenshot"),
                  DriverCall("Screenshot", tf))
        /\ UNCHANGED <<sessionVars, browserVars, contexts, evals, attempt, restVars>>

switch_to_default_content(c) ==
    \E tf \in BOOLEAN :
        LET r == DriverCall("SwitchToFrameDefault", tf) IN
        /\ Single(c, "switch_to_default_content", "",
                  Issued(driver_guard, "SwitchToFrameDefault"), r)
        /\ scope' = IF r.kind = "Ok" THEN <<>> ELSE scope
        /\ UNCHANGED <<sessionVars, frames, btn, items, contexts, evals, attempt, restVars>>

switch_to_parent_frame(c) ==
    \E tf \in BOOLEAN :
        LET r == DriverCall("SwitchToParentFrame", tf) IN
        /\ Single(c, "switch_to_parent_frame", "",
                  Issued(driver_guard, "SwitchToParentFrame"), r)
        /\ scope' = IF r.kind = "Ok" /\ scope # <<>>
                    THEN SubSeq(scope, 1, Len(scope) - 1) ELSE scope
        /\ UNCHANGED <<sessionVars, frames, btn, items, contexts, evals, attempt, restVars>>

execute_cdp(c) ==
    \E tf \in BOOLEAN :
        LET r == IF cdp_guard # "Ok" THEN R("BrowserClosed", "", 0)
                 ELSE IF tf THEN R("ActionFailed", "CDP command failed", 0)
                 ELSE R("Ok", "", 0) IN
        /\ Single(c, "execute_cdp", "", Issued(cdp_guard, "ExecuteCdp"), r)
        /\ UNCHANGED <<sessionVars, browserVars, contexts, evals, attempt, restVars>>

is_closed(c) ==
    /\ Single(c, "is_closed", "", <<>>,
              IF driver THEN R("False", "", 0) ELSE R("True", "", 0))
    /\ UNCHANGED <<sessionVars, browserVars, contexts, evals, attempt, restVars>>

\* close() that borrows the driver (as_ref) instead of taking it.
close_as_ref(c) ==
    \E tf \in BOOLEAN :
        /\ closeCalls < MaxCloseCalls
        /\ closeCalls' = closeCalls + 1
        /\ cdp' = FALSE
        /\ driver' = driver
        /\ quitCount' = IF driver THEN quitCount + 1 ELSE quitCount
        /\ Single(c, "close", "", IF driver THEN <<"Quit">> ELSE <<>>,
                  IF driver /\ tf THEN R("WebDriver", "Quit", 0) ELSE R("Ok", "", 0))
        /\ UNCHANGED <<browserVars, contexts, evals, attempt, restVars>>

\* A close() that quits through the handle in place and takes it only once
\* the quit has succeeded.
close_after_quit(c) ==
    \E tf \in BOOLEAN :
        /\ closeCalls < MaxCloseCalls
        /\ closeCalls' = closeCalls + 1
        /\ cdp' = FALSE
        /\ driver' = (driver /\ tf)
        /\ quitCount' = IF driver THEN quitCount + 1 ELSE quitCount
        /\ Single(c, "close", "", IF driver THEN <<"Quit">> ELSE <<>>,
                  IF driver /\ tf THEN R("WebDriver", "Quit", 0) ELSE R("Ok", "", 0))
        /\ UNCHANGED <<browserVars, contexts, evals, attempt, restVars>>

\* close(): take the CDP handle, take the driver, quit it if it was there.
close(c) ==
    \E tf \in BOOLEAN :
        /\ closeCalls < MaxCloseCalls
        /\ closeCalls' = closeCalls + 1
        /\ cdp' = FALSE
        /\ driver' = FALSE
        /\ quitCount' = IF driver THEN quitCount + 1 ELSE quitCount
        /\ Single(c, "close", "", IF driver THEN <<"Quit">> ELSE <<>>,
                  IF driver /\ tf THEN R("WebDriver", "Quit", 0) ELSE R("Ok", "", 0))
        /\ UNCHANGED <<browserVars, contexts, evals, attempt, restVars>>

\* ---------------------------------------------------------------- frames
FL(sel) == [frame_selector |-> sel, parent |-> <<>>]
new_nested(parent, sel) == [frame_selector |-> sel, parent |-> <<parent>>]
FrameLocators == {FL(F1), new_nested(FL(F1), F2)}

FrameOps == {"frame_click", "frame_fill", "frame_type", "frame_text_content",
             "frame_get_attribute", "frame_is_visible"}

\* The element commands of an action, after its element was found.
ElementCommands(op) ==
    CASE op \in {"frame_click", "click"} -> <<"ElementClick">>
      [] op \in {"frame_fill", "frame_type", "fill"} -> <<"ElementClear", "ElementSendKeys">>
      [] op \in {"frame_text_content", "text_content"} -> <<"GetElementText">>
      [] op \in {"frame_get_attribute", "get_attribute"} -> <<"GetElementAttribute">>
      [] op \in {"frame_is_visible", "is_visible"} -> <<"IsElementDisplayed">>
      [] op = "type" -> <<"ElementSendKeys">>
      [] op = "is_enabled" -> <<"IsElementEnabled">>
      [] op = "is_checked" -> <<"IsElementSelected">>
      [] op = "screenshot" -> <<"TakeElementScreenshot">>
      [] OTHER -> <<>>

\* switch_to_frame_context entering its own frame before its parent's.
switch_to_frame_context_child_first(fl) ==
    <<"default", fl.frame_selector>>
    \o (IF fl.parent # <<>> THEN <<fl.parent[1].frame_selector>> ELSE <<>>)

\* FrameLocator::switch_to_frame_context: the parent's switches first (or the
\* reset to the default content when there is no parent), then this frame.
RECURSIVE switch_to_frame_context(_)
switch_to_frame_context(fl) ==
    (IF fl.parent # <<>>
     THEN switch_to_frame_context(fl.parent[1])
     ELSE <<"default">>) \o <<fl.frame_selector>>

SwitchPc(p) ==
    IF p = <<>> THEN "fr_find"
    ELSE IF Head(p) = "default" THEN "fr_default" ELSE "fr_find_frame"

\* A command sent through an element reference: it goes through the session
\* handle the element holds, not through the adapter's driver guard.
ElementCall(e, tf) ==
    IF ~driver \/ tf \/ e.sc # scope THEN R("WebDriver", "element", 0) ELSE R("Ok", "", 0)

\* ElementInFrame::click / fill / type / text_content / get_attribute / is_visible
\* are entered: the first statement is switch_to_frame_context().await?
frame_action(c) ==
    \E fl \in FrameLocators, op \in FrameOps, sel \in {"#btn", ".none"} :
        /\ pc[c] = "idle"
        /\ cur' = [cur EXCEPT ![c] = [NoCall EXCEPT !.op = op, !.sel = sel, !.fl = <<fl>>]]
        /\ Move(c, SwitchPc(switch_to_frame_context(fl)), switch_to_frame_context(fl),
                0, NoElem, NoResult)
        /\ reqs' = [reqs EXCEPT ![c] = <<>>]
        /\ evals' = [evals EXCEPT ![c] = <<>>]
        /\ UNCHANGED <<sessionVars, browserVars, contexts, attempt, restVars>>

\* The public adapter call switch_to_frame_by_selector(sel) is entered.
switch_to_frame_by_selector(c) ==
    \E sel \in FrameSelectors :
        /\ pc[c] = "idle"
        /\ Begin(c, "switch_to_frame_by_selector", sel)
        /\ Move(c, "fr_find_frame", <<sel>>, 0, NoElem, NoResult)
        /\ reqs' = [reqs EXCEPT ![c] = <<>>]
        /\ evals' = [evals EXCEPT ![c] = <<>>]
        /\ UNCHANGED <<sessionVars, browserVars, contexts, attempt, restVars>>

\* switch_to_frame_context, no parent: adapter.switch_to_default_content().await?
fr_default(c) ==
    \E tf \in BOOLEAN :
        LET r == DriverCall("SwitchToFrameDefault", tf) IN
        /\ pc[c] = "fr_default"
        /\ Log(c, Issued(driver_guard, "SwitchToFrameDefault"))
        /\ IF r.kind = "Ok"
           THEN /\ scope' = <<>>
                /\ Move(c, SwitchPc(Tail(plan[c])), Tail(plan[c]), 0, NoElem, NoResult)
           ELSE /\ Return(c, r)
                /\ UNCHANGED scope
        /\ UNCHANGED <<sessionVars, frames, btn, items, contexts, cur, evals, attempt, restVars>>

\* The loop that waits for the iframe sleeping on every error of the query.
fr_find_frame_retry_all(c) ==
    \E tf \in BOOLEAN, d \in 0..1 :
        LET r == find_element_raw(Head(plan[c]), tf)
            e == Min(elapsed[c] + d, FrameTimeout) IN
        /\ pc[c] = "fr_find_frame"
        /\ Log(c, Issued(driver_guard, "FindElement"))
        /\ CASE r.kind = "Ok" ->
                  Move(c, "fr_enter", plan[c], e,
                       [sc |-> scope, sel |-> Head(plan[c]), idx |-> 0], NoResult)
             [] r.kind # "Ok" /\ e >= FrameTimeout ->
                  Return(c, R("Timeout", "iframe not found: " \o Head(plan[c]), 0))
             [] OTHER ->
                  Move(c, "fr_sleep", plan[c], e, NoElem, NoResult)
        /\ UNCHANGED <<sessionVars, browserVars, contexts, cur, evals, attempt, restVars>>

\* switch_to_frame_by_selector: one turn of the loop that waits for the iframe.
fr_find_frame(c) ==
    \E tf \in BOOLEAN, d \in 0..1 :
        LET r == find_element_raw(Head(plan[c]), tf)
            e == Min(elapsed[c] + d, FrameTimeout) IN
        /\ pc[c] = "fr_find_frame"
        /\ Log(c, Issued(driver_guard, "FindElement"))
        /\ CASE r.kind = "Ok" ->
                  Move(c, "fr_enter", plan[c], e,
                       [sc |-> scope, sel |-> Head(plan[c]), idx |-> 0], NoResult)
             [] r.kind = "ElementNotFound" /\ e >= FrameTimeout ->
                  Return(c, R("Timeout", "iframe not found: " \o Head(plan[c]), 0))
             [] r.kind = "ElementNotFound" /\ e < FrameTimeout ->
                  Move(c, "fr_sleep", plan[c], e, NoElem, NoResult)
             [] OTHER ->
                  Return(c, r)
        /\ UNCHANGED <<sessionVars, browserVars, contexts, cur, evals, attempt, restVars>>

\* switch_to_frame_by_selector: tokio::time::sleep(100ms) between two queries.
fr_sleep(c) ==
    /\ pc[c] = "fr_sleep"
    /\ Move(c, "fr_find_frame", plan[c], Min(elapsed[c] + 1, FrameTimeout), NoElem, NoResult)
    /\ UNCHANGED <<sessionVars, browserVars, contexts, cur, reqs, evals, attempt, restVars>>

\* switch_to_frame_by_selector: target_frame.enter_frame().await?
fr_enter(c) ==
    \E tf \in BOOLEAN :
        LET r == ElementCall(elem[c], tf)
            rest == Tail(plan[c]) IN
        /\ pc[c] = "fr_enter"
        /\ Log(c, <<"SwitchToFrameElement">>)
        /\ IF r.kind = "Ok"
           THEN /\ scope' = Append(scope, Head(plan[c]))
                /\ IF cur[c].op = "switch_to_frame_by_selector"
                   THEN Return(c, R("Ok", "", 0))
                   ELSE Move(c, SwitchPc(rest), rest, 0, NoElem, NoResult)
           ELSE /\ Return(c, r)
                /\ UNCHANGED scope
        /\ UNCHANGED <<sessionVars, frames, btn, items, contexts, cur, evals, attempt, restVars>>

\* A wrapped action that waits for its target as a locator does: it queries
\* again after a sleep until the frame locator's timeout.
fr_find_retrying(c) ==
    \E tf \in BOOLEAN :
        LET r == find_element_raw(cur[c].sel, tf) IN
        /\ pc[c] = "fr_find"
        /\ Log(c, Issued(driver_guard, "FindElement"))
        /\ evals' = [evals EXCEPT ![c] = IF driver THEN Append(evals[c], scope) ELSE evals[c]]
        /\ CASE r.kind = "Ok" ->
                  Move(c, "fr_act", ElementCommands(cur[c].op), 0,
                       [sc |-> scope, sel |-> cur[c].sel, idx |-> 0], NoResult)
             [] r.kind = "ElementNotFound" /\ elapsed[c] < FrameTimeout ->
                  Move(c, "fr_find", <<>>, elapsed[c] + 1, NoElem, NoResult)
             [] r.kind = "ElementNotFound" /\ elapsed[c] >= FrameTimeout ->
                  Move(c, "fr_restore", <<>>, 0, NoElem, R("Timeout", cur[c].sel, 0))
             [] OTHER ->
                  Move(c, "fr_restore", <<>>, 0, NoElem, r)
        /\ UNCHANGED <<sessionVars, browserVars, contexts, cur, attempt, restVars>>

\* The wrapped action: adapter.find_element(&self.element_selector).await?
fr_find(c) ==
    \E tf \in BOOLEAN :
        LET r == find_element_raw(cur[c].sel, tf) IN
        /\ pc[c] = "fr_find"
        /\ Log(c, Issued(driver_guard, "FindElement"))
        /\ evals' = [evals EXCEPT ![c] = IF driver THEN Append(evals[c], scope) ELSE evals[c]]
        /\ IF r.kind = "Ok"
           THEN Move(c, "fr_act", ElementCommands(cur[c].op), 0,
                     [sc |-> scope, sel |-> cur[c].sel, idx |-> 0], NoResult)
           ELSE Move(c, "fr_restore", <<>>, 0, NoElem, r)
        /\ UNCHANGED <<sessionVars, browserVars, contexts, cur, attempt, restVars>>

\* The wrapped action: one element command (element.click().await? ...).
fr_act(c) ==
    \E tf \in BOOLEAN :
        LET r == ElementCall(elem[c], tf) IN
        /\ pc[c] = "fr_act"
        /\ Log(c, <<Head(plan[c])>>)
        /\ IF r.kind = "Ok" /\ Tail(plan[c]) # <<>>
           THEN Move(c, "fr_act", Tail(plan[c]), 0, elem[c], NoResult)
           ELSE Move(c, "fr_restore", <<>>, 0, NoElem, r)
        /\ UNCHANGED <<sessionVars, browserVars, contexts, cur, evals, attempt, restVars>>

\* The restore placed after `result?`: a failed wrapped action returns at once.
fr_restore_after_try(c) ==
    \E tf \in BOOLEAN :
        LET r == DriverCall("SwitchToFrameDefault", tf) IN
        /\ pc[c] = "fr_restore"
        /\ IF inner[c].kind # "Ok"
           THEN /\ Return(c, inner[c])
                /\ UNCHANGED <<scope, reqs>>
           ELSE /\ Log(c, Issued(driver_guard, "SwitchToFrameDefault"))
                /\ scope' = IF r.kind = "Ok" THEN <<>> ELSE scope
                /\ Return(c, IF r.kind = "Ok" THEN inner[c] ELSE r)
        /\ UNCHANGED <<sessionVars, frames, btn, items, contexts, cur, evals, attempt, restVars>>

\* A restore that reports only its own outcome: `result` is dropped.
fr_restore_swallowing(c) ==
    \E tf \in BOOLEAN :
        LET r == DriverCall("SwitchToFrameDefault", tf) IN
        /\ pc[c] = "fr_restore"
        /\ Log(c, Issued(driver_guard, "SwitchToFrameDefault"))
        /\ scope' = IF r.kind = "Ok" THEN <<>> ELSE scope
        /\ Return(c, r)
        /\ UNCHANGED <<sessionVars, frames, btn, items, contexts, cur, evals, attempt, restVars>>

\* "Always switch back": adapter.switch_to_default_content().await?; result
fr_restore(c) ==
    \E tf \in BOOLEAN :
        LET r == DriverCall("SwitchToFrameDefault", tf) IN
        /\ pc[c] = "fr_restore"
        /\ Log(c, Issued(driver_guard, "SwitchToFrameDefault"))
        /\ scope' = IF r.kind = "Ok" THEN <<>> ELSE scope
        /\ Return(c, IF r.kind = "Ok" THEN inner[c] ELSE r)
        /\ UNCHANGED <<sessionVars, frames, btn, items, contexts, cur, evals, attempt, restVars>>

SwitchStep(c) ==
    \/ fr_find_frame(c)
    \/ fr_sleep(c)
    \/ fr_enter(c)

FrameStep(c) ==
    \/ frame_action(c)
    \/ fr_default(c)
    \/ SwitchStep(c)
    \/ fr_find(c)
    \/ fr_act(c)
    \/ fr_restore(c)

\* ---------------------------------------------------------------- locator
\* Locator values: nth_index is <<>> for None and <<n>> for Some(n).
Locator_new(sel) == [selector |-> sel, timeout |-> MaxTimeout, nth_index |-> <<>>]
timeout(loc, t) == [loc EXCEPT !.timeout = t]
nth(loc, index) == [loc EXCEPT !.nth_index = <<index>>]
first(loc) == nth(loc, 0)
last(loc) == [loc EXCEPT !.nth_index = <<UsizeMax>>]

\* The public actions of a Locator; is_enabled, is_checked and screenshot are
\* is_visible with another element command and go with it.
LocatorOps == {"click", "fill", "type", "text_content", "get_attribute", "is_visible"}

\* The indexes callers pass to nth(): inside the list, just past its largest
\* length, and the two largest values of usize.
NthIndexes == {1, MaxMatches, UsizeMax - 1, UsizeMax}

\* The ways a caller builds the locator it acts on.
Built(sel, t) ==
    LET base == timeout(Locator_new(sel), t) IN
    {[ctor |-> "new", loc |-> base],
     [ctor |-> "first", loc |-> first(base)],
     [ctor |-> "last", loc |-> last(base)]}
    \cup {[ctor |-> "nth", loc |-> nth(base, n)] : n \in NthIndexes}

\* resolve_element with elements.get(index) clamped to the last entry.
resolve_element_clamped(nth_index, sel, tf) ==
    IF nth_index # <<>>
    THEN LET els == find_elements_raw(sel, tf) IN
         IF els.kind # "Ok" THEN [kind |-> els.kind, idx |-> 0, k |-> 0]
         ELSE IF els.val = 0 THEN [kind |-> "ElementNotFound", idx |-> 0, k |-> 0]
         ELSE [kind |-> "Ok", idx |-> Min(nth_index[1], els.val - 1), k |-> els.val]
    ELSE LET el == find_element_raw(sel, tf) IN
         [kind |-> el.kind, idx |-> 0, k |-> Count(sel, scope)]

\* resolve_element answering last() with the element that was last when the
\* list had one entry.
resolve_element_stale(nth_index, sel, tf) ==
    IF nth_index # <<>>
    THEN LET els == find_elements_raw(sel, tf) IN
         IF els.kind # "Ok" THEN [kind |-> els.kind, idx |-> 0, k |-> 0]
         ELSE IF els.val = 0 THEN [kind |-> "ElementNotFound", idx |-> 0, k |-> 0]
         ELSE IF nth_index[1] = UsizeMax
              THEN [kind |-> "Ok", idx |-> 0, k |-> els.val]
         ELSE IF nth_index[1] < els.val
              THEN [kind |-> "Ok", idx |-> nth_index[1], k |-> els.val]
         ELSE [kind |-> "ElementNotFound", idx |-> 0, k |-> els.val]
    ELSE LET el == find_element_raw(sel, tf) IN
         [kind |-> el.kind, idx |-> 0, k |-> Count(sel, scope)]

\* resolve_element counting positions from one: elements.get(index - 1).
resolve_element_one_based(nth_index, sel, tf) ==
    IF nth_index # <<>>
    THEN LET els == find_elements_raw(sel, tf) IN
         IF els.kind # "Ok" THEN [kind |-> els.kind, idx |-> 0, k |-> 0]
         ELSE IF els.val = 0 THEN [kind |-> "ElementNotFound", idx |-> 0, k |-> 0]
         ELSE IF nth_index[1] = UsizeMax
              THEN [kind |-> "Ok", idx |-> els.val - 1, k |-> els.val]
         ELSE IF nth_index[1] >= 1 /\ nth_index[1] - 1 < els.val
              THEN [kind |-> "Ok", idx |-> nth_index[1] - 1, k |-> els.val]
         ELSE [kind |-> "ElementNotFound", idx |-> 0, k |-> els.val]
    ELSE LET el == find_element_raw(sel, tf) IN
         [kind |-> el.kind, idx |-> 0, k |-> Count(sel, scope)]

\* Locator::resolve_element: one attempt; k is the length of the list read.
resolve_element(nth_index, sel, tf) ==
    IF nth_index # <<>>
    THEN LET els == find_elements_raw(sel, tf) IN
         IF els.kind # "Ok" THEN [kind |-> els.kind, idx |-> 0, k |-> 0]
         ELSE IF els.val = 0 THEN [kind |-> "ElementNotFound", idx |-> 0, k |-> 0]
         ELSE IF nth_index[1] = UsizeMax
              THEN [kind |-> "Ok", idx |-> els.val - 1, k |-> els.val]
         ELSE IF nth_index[1] < els.val
              THEN [kind |-> "Ok", idx |-> nth_index[1], k |-> els.val]
         ELSE [kind |-> "ElementNotFound", idx |-> 0, k |-> els.val]
    ELSE LET el == find_element_raw(sel, tf) IN
         [kind |-> el.kind, idx |-> 0, k |-> Count(sel, scope)]

\* A public locator action is entered (click with default ClickOptions,
\* type without a per-key delay).
locator_action(c) ==
    \E op \in LocatorOps, sel \in {".item", ".none"}, t \in {0, MaxTimeout} :
      \E b \in Built(sel, t) :
        /\ pc[c] = "idle"
        /\ cur' = [cur EXCEPT ![c] = [NoCall EXCEPT !.op = op, !.sel = b.loc.selector,
                                       !.nth = b.loc.nth_index,
                                       !.timeout = b.loc.timeout, !.ctor = b.ctor]]
        /\ Move(c, "loc_resolve", <<>>, 0, NoElem, NoResult)
        /\ attempt' = [attempt EXCEPT ![c] = NoAttempt]
        /\ reqs' = [reqs EXCEPT ![c] = <<>>]
        /\ evals' = [evals EXCEPT ![c] = <<>>]
        /\ UNCHANGED <<sessionVars, browserVars, contexts, restVars>>

\* The Timeout a locator action returns when find_element gave up.
FindTimeout(op, sel) ==
    IF op = "click" THEN R("Timeout", "Timeout waiting for element '" \o sel \o "'", 0)
    ELSE R("Timeout", "element not found", 0)

\* Locator::find_element: one turn of the loop, and what the action does
\* with an element that was found.
loc_resolve(c) ==
    \E tf \in BOOLEAN, d \in 0..1 :
        LET a == resolve_element(cur[c].nth, cur[c].sel, tf)
            e == Min(elapsed[c] + d, cur[c].timeout) IN
        /\ pc[c] = "loc_resolve"
        /\ Log(c, Issued(driver_guard,
                         IF cur[c].nth # <<>> THEN "FindElements" ELSE "FindElement"))
        /\ evals' = [evals EXCEPT ![c] = IF driver THEN Append(evals[c], scope) ELSE evals[c]]
        /\ attempt' = [attempt EXCEPT ![c] = a]
        /\ CASE a.kind = "Ok" /\ cur[c].op = "click" /\ e >= cur[c].timeout ->
                  Return(c, R("Timeout", "click", 0))
             [] a.kind = "Ok" /\ ~(cur[c].op = "click" /\ e >= cur[c].timeout) ->
                  Move(c, "loc_act", ElementCommands(cur[c].op), e,
                       [sc |-> scope, sel |-> cur[c].sel, idx |-> a.idx], NoResult)
             [] a.kind # "Ok" /\ e >= cur[c].timeout ->
                  Return(c, FindTimeout(cur[c].op, cur[c].sel))
             [] OTHER ->
                  Move(c, "loc_sleep", <<>>, e, NoElem, NoResult)
        /\ UNCHANGED <<sessionVars, browserVars, contexts, cur, restVars>>

\* Locator::find_element: tokio::time::sleep(100ms) before the next attempt.
loc_sleep(c) ==
    /\ pc[c] = "loc_sleep"
    /\ Move(c, "loc_resolve", <<>>, Min(elapsed[c] + 1, cur[c].timeout), NoElem, NoResult)
    /\ UNCHANGED <<sessionVars, browserVars, contexts, cur, attempt, reqs, evals, restVars>>

\* The action on the element that was found: one element command, its error
\* mapped to ActionFailed.
loc_act(c) ==
    \E tf \in BOOLEAN :
        LET r == ElementCall(elem[c], tf) IN
        /\ pc[c] = "loc_act"
        /\ Log(c, <<Head(plan[c])>>)
        /\ CASE r.kind # "Ok" -> Return(c, R("ActionFailed", cur[c].sel, 0))
             [] r.kind = "Ok" /\ Tail(plan[c]) # <<>> ->
                  Move(c, "loc_act", Tail(plan[c]), elapsed[c], elem[c], NoResult)
             [] OTHER -> Return(c, R("Ok", cur[c].sel, elem[c].idx))
        /\ UNCHANGED <<sessionVars, browserVars, contexts, cur, attempt, evals, restVars>>

\* Locator::count with an empty match list reported as not found.
count_strict(c) ==
    \E sel \in {".item", ".none"}, t \in {0, MaxTimeout}, tf \in BOOLEAN :
      \E b \in Built(sel, t) :
        /\ pc[c] = "idle"
        /\ cur' = [cur EXCEPT ![c] = [NoCall EXCEPT !.op = "count", !.sel = b.loc.selector,
                                       !.nth = b.loc.nth_index,
                                       !.timeout = b.loc.timeout, !.ctor = b.ctor]]
        /\ Return(c, find_elements_raw_strict(b.loc.selector, tf))
        /\ reqs' = [reqs EXCEPT ![c] = Issued(driver_guard, "FindElements")]
        /\ evals' = [evals EXCEPT ![c] = IF driver THEN <<scope>> ELSE <<>>]
        /\ attempt' = [attempt EXCEPT ![c] = NoAttempt]
        /\ UNCHANGED <<sessionVars, browserVars, contexts, restVars>>

\* Locator::count: self.find_elements().await? once, then its length; the
\* locator's index and timeout are not looked at.
count(c) ==
    \E sel \in {".item", ".none"}, t \in {0, MaxTimeout}, tf \in BOOLEAN :
      \E b \in Built(sel, t) :
        /\ pc[c] = "idle"
        /\ cur' = [cur EXCEPT ![c] = [NoCall EXCEPT !.op = "count", !.sel = b.loc.selector,
                                       !.nth = b.loc.nth_index,
                                       !.timeout = b.loc.timeout, !.ctor = b.ctor]]
        /\ Return(c, find_elements_raw(b.loc.selector, tf))
        /\ reqs' = [reqs EXCEPT ![c] = Issued(driver_guard, "FindElements")]
        /\ evals' = [evals EXCEPT ![c] = IF driver THEN <<scope>> ELSE <<>>]
        /\ attempt' = [attempt EXCEPT ![c] = NoAttempt]
        /\ UNCHANGED <<sessionVars, browserVars, contexts, restVars>>

LocatorStep(c) ==
    \/ loc_resolve(c)
    \/ loc_sleep(c)
    \/ loc_act(c)

\* ---------------------------------------------------------------- session guard
\* tokio::sync::RwLock: fair, FIFO.  A request is granted at once only when
\* the lock is compatible and nobody is queued; otherwise it queues, and the
\* queue is served from its head.
Tasks == {"bv", "cl", "op"}
Locks == {"driver", "cdp", "session_capabilities"}

Readers(l) == {t \in Tasks : lkR[l][t] > 0}
Waiting(t, l) == \E i \in 1..Len(lkQ[l]) : lkQ[l][i][1] = t
Compatible(l, m) ==
    /\ lkW[l] = "none"
    /\ m = "w" => Readers(l) = {}

\* Lock state after task t asks for lock l in mode m ("r" or "w").
Asked(R0, W0, Q0, t, l, m) ==
    IF Q0[l] = <<>> /\ W0[l] = "none" /\ (m = "w" => \A u \in Tasks : R0[l][u] = 0)
    THEN [r |-> IF m = "r" THEN [R0 EXCEPT ![l][t] = @ + 1] ELSE R0,
          w |-> IF m = "w" THEN [W0 EXCEPT ![l] = t] ELSE W0,
          q |-> Q0]
    ELSE [r |-> R0, w |-> W0, q |-> [Q0 EXCEPT ![l] = Append(@, <<t, m>>)]]

\* Lock state after task t drops one guard of mode m on lock l.
Dropped(R0, W0, Q0, t, l, m) ==
    [r |-> IF m = "r" THEN [R0 EXCEPT ![l][t] = @ - 1] ELSE R0,
     w |-> IF m = "w" THEN [W0 EXCEPT ![l] = "none"] ELSE W0,
     q |-> Q0]

Now == [r |-> lkR, w |-> lkW, q |-> lkQ]
Ask(L, t, l, m) == Asked(L.r, L.w, L.q, t, l, m)
Drop(L, t, l, m) == Dropped(L.r, L.w, L.q, t, l, m)
SetLocks(L) == lkR' = L.r /\ lkW' = L.w /\ lkQ' = L.q

\* The head of the queue of lock l gets its guard.
Grant(l) ==
    /\ lkQ[l] # <<>>
    /\ Compatible(l, Head(lkQ[l])[2])
    /\ LET t == Head(lkQ[l])[1]
           m == Head(lkQ[l])[2] IN
       /\ lkQ' = [lkQ EXCEPT ![l] = Tail(@)]
       /\ lkR' = IF m = "r" THEN [lkR EXCEPT ![l][t] = @ + 1] ELSE lkR
       /\ lkW' = IF m = "w" THEN [lkW EXCEPT ![l] = t] ELSE lkW
    /\ UNCHANGED <<tpc, tres, capsCached, wire, sessionVars, browserVars, contexts, callerVars,
                   trackerVars>>

At(t, p) == tpc[t] = p
To(t, p) == tpc' = [tpc EXCEPT ![t] = p]
Done(t, r) == tpc' = [tpc EXCEPT ![t] = "done"] /\ tres' = [tres EXCEPT ![t] = r]
lockFrame == <<closeCalls, browserVars, contexts, callerVars, trackerVars>>

\* browser_version: let guard = self.driver().await?  (first read guard)
bv_start ==
    /\ At("bv", "idle")
    /\ SetLocks(Ask(Now, "bv", "driver", "r"))
    /\ To("bv", "bv_guard")
    /\ UNCHANGED <<tres, capsCached, wire, driver, cdp, quitCount, lockFrame>>

\* browser_version: the guard is checked, then session_capabilities() takes
\* the write guard of its cache.
bv_guard ==
    /\ At("bv", "bv_guard")
    /\ ~Waiting("bv", "driver")
    /\ IF driver
       THEN /\ SetLocks(Ask(Now, "bv", "session_capabilities", "w"))
            /\ To("bv", "sc_lock")
            /\ UNCHANGED tres
       ELSE /\ SetLocks(Drop(Now, "bv", "driver", "r"))
            /\ Done("bv", "BrowserClosed")
    /\ UNCHANGED <<capsCached, wire, driver, cdp, quitCount, lockFrame>>

\* session_capabilities: a cached value is returned; otherwise
\* self.driver().await? asks for the driver lock again.
sc_lock ==
    /\ At("bv", "sc_lock")
    /\ ~Waiting("bv", "session_capabilities")
    /\ IF capsCached
       THEN /\ SetLocks(Drop(Now, "bv", "session_capabilities", "w"))
            /\ To("bv", "bv_version")
       ELSE /\ SetLocks(Ask(Now, "bv", "driver", "r"))
            /\ To("bv", "sc_driver")
    /\ UNCHANGED <<tres, capsCached, wire, driver, cdp, quitCount, lockFrame>>

\* session_capabilities: the second guard is checked and GetSession is sent.
sc_driver ==
    /\ At("bv", "sc_driver")
    /\ ~Waiting("bv", "driver")
    /\ IF driver
       THEN /\ wire' = wire \cup {<<"bv", "GetSession">>}
            /\ To("bv", "sc_cmd")
            /\ UNCHANGED <<tres, lkR, lkW, lkQ>>
       ELSE /\ SetLocks(Drop(Drop(Drop(Now, "bv", "driver", "r"),
                                  "bv", "session_capabilities", "w"),
                             "bv", "driver", "r"))
            /\ Done("bv", "BrowserClosed")
            /\ UNCHANGED wire
    /\ UNCHANGED <<capsCached, driver, cdp, quitCount, lockFrame>>

\* session_capabilities: the answer arrives; it is cached unless the command
\* or its decoding failed; both guards of session_capabilities are dropped.
sc_cmd ==
    \E ok \in BOOLEAN :
        /\ At("bv", "sc_cmd")
        /\ wire' = wire \ {<<"bv", "GetSession">>}
        /\ capsCached' = (capsCached \/ ok)
        /\ SetLocks(Drop(Drop(Now, "bv", "driver", "r"), "bv", "session_capabilities", "w"))
        /\ To("bv", "bv_version")
        /\ UNCHANGED <<tres, driver, cdp, quitCount, lockFrame>>

\* browser_version: a version in the session or requested capabilities is
\* returned; otherwise self.cdp().await? is asked for.
bv_version ==
    \E found \in BOOLEAN :
        /\ At("bv", "bv_version")
        /\ IF found
           THEN /\ SetLocks(Drop(Now, "bv", "driver", "r"))
                /\ Done("bv", "Ok")
           ELSE /\ SetLocks(Ask(Now, "bv", "cdp", "r"))
                /\ To("bv", "bv_cdp")
                /\ UNCHANGED tres
        /\ UNCHANGED <<capsCached, wire, driver, cdp, quitCount, lockFrame>>

\* browser_version: the CDP guard is checked and Browser.getVersion is sent.
bv_cdp ==
    /\ At("bv", "bv_cdp")
    /\ ~Waiting("bv", "cdp")
    /\ IF cdp
       THEN /\ wire' = wire \cup {<<"bv", "ExecuteCdp">>}
            /\ To("bv", "bv_cdp_cmd")
            /\ UNCHANGED <<tres, lkR, lkW, lkQ>>
       ELSE /\ SetLocks(Drop(Drop(Now, "bv", "cdp", "r"), "bv", "driver", "r"))
            /\ Done("bv", "BrowserClosed")
            /\ UNCHANGED wire
    /\ UNCHANGED <<capsCached, driver, cdp, quitCount, lockFrame>>

\* browser_version: the CDP answer gives the version, or the CDP guard is
\* dropped and execute_script() asks for the driver lock again.
bv_cdp_cmd ==
    \E found \in BOOLEAN :
        /\ At("bv", "bv_cdp_cmd")
        /\ wire' = wire \ {<<"bv", "ExecuteCdp">>}
        /\ IF found
           THEN /\ SetLocks(Drop(Drop(Now, "bv", "cdp", "r"), "bv", "driver", "r"))
                /\ Done("bv", "Ok")
           ELSE /\ SetLocks(Ask(Drop(Now, "bv", "cdp", "r"), "bv", "driver", "r"))
                /\ To("bv", "bv_script")
                /\ UNCHANGED tres
        /\ UNCHANGED <<capsCached, driver, cdp, quitCount, lockFrame>>

\* browser_version -> execute_script: the guard is checked, the script is sent.
bv_script ==
    /\ At("bv", "bv_script")
    /\ ~Waiting("bv", "driver")
    /\ IF driver
       THEN /\ wire' = wire \cup {<<"bv", "ExecuteScript">>}
            /\ To("bv", "bv_script_cmd")
            /\ UNCHANGED <<tres, lkR, lkW, lkQ>>
       ELSE /\ SetLocks(Drop(Drop(Now, "bv", "driver", "r"), "bv", "driver", "r"))
            /\ Done("bv", "BrowserClosed")
            /\ UNCHANGED wire
    /\ UNCHANGED <<capsCached, driver, cdp, quitCount, lockFrame>>

\* browser_version: the user agent arrives; every guard is dropped.
bv_script_cmd ==
    \E ok \in BOOLEAN :
        /\ At("bv", "bv_script_cmd")
        /\ wire' = wire \ {<<"bv", "ExecuteScript">>}
        /\ SetLocks(Drop(Drop(Now, "bv", "driver", "r"), "bv", "driver", "r"))
        /\ Done("bv", IF ok THEN "Ok" ELSE "WebDriver")
        /\ UNCHANGED <<capsCached, driver, cdp, quitCount, lockFrame>>

\* close: let mut cdp_guard = self.cdp.write().await
cl_start ==
    /\ At("cl", "idle")
    /\ SetLocks(Ask(Now, "cl", "cdp", "w"))
    /\ To("cl", "cl_cdp")
    /\ UNCHANGED <<tres, capsCached, wire, driver, cdp, quitCount, lockFrame>>

\* close: cdp_guard.take(); drop(cdp_guard); self.driver.write().await
cl_cdp ==
    /\ At("cl", "cl_cdp")
    /\ ~Waiting("cl", "cdp")
    /\ cdp' = FALSE
    /\ SetLocks(Ask(Drop(Now, "cl", "cdp", "w"), "cl", "driver", "w"))
    /\ To("cl", "cl_driver")
    /\ UNCHANGED <<tres, capsCached, wire, driver, quitCount, lockFrame>>

\* close: guard.take(); a driver that was there is sent quit.
cl_driver ==
    /\ At("cl", "cl_driver")
    /\ ~Waiting("cl", "driver")
    /\ driver' = FALSE
    /\ IF driver
       THEN /\ wire' = wire \cup {<<"cl", "Quit">>}
            /\ quitCount' = quitCount + 1
            /\ To("cl", "cl_quit")
            /\ UNCHANGED <<tres, lkR, lkW, lkQ>>
       ELSE /\ SetLocks(Drop(Now, "cl", "driver", "w"))
            /\ Done("cl", "Ok")
            /\ UNCHANGED <<wire, quitCount>>
    /\ UNCHANGED <<capsCached, cdp, lockFrame>>

\* close: the answer to quit arrives; the write guard is dropped.
cl_quit ==
    \E ok \in BOOLEAN :
        /\ At("cl", "cl_quit")
        /\ wire' = wire \ {<<"cl", "Quit">>}
        /\ SetLocks(Drop(Now, "cl", "driver", "w"))
        /\ Done("cl", IF ok THEN "Ok" ELSE "WebDriver")
        /\ UNCHANGED <<capsCached, driver, cdp, quitCount, lockFrame>>

\* execute_script by another task: let guard = self.driver().await?
op_start ==
    /\ At("op", "idle")
    /\ SetLocks(Ask(Now, "op", "driver", "r"))
    /\ To("op", "op_guard")
    /\ UNCHANGED <<tres, capsCached, wire, driver, cdp, quitCount, lockFrame>>

\* execute_script: the guard is checked and the script is sent.
op_guard ==
    /\ At("op", "op_guard")
    /\ ~Waiting("op", "driver")
    /\ IF driver
       THEN /\ wire' = wire \cup {<<"op", "ExecuteScript">>}
            /\ To("op", "op_cmd")
            /\ UNCHANGED <<tres, lkR, lkW, lkQ>>
       ELSE /\ SetLocks(Drop(Now, "op", "driver", "r"))
            /\ Done("op", "BrowserClosed")
            /\ UNCHANGED wire
    /\ UNCHANGED <<capsCached, driver, cdp, quitCount, lockFrame>>

\* execute_script: the answer arrives; the guard is dropped.
op_cmd ==
    \E ok \in BOOLEAN :
        /\ At("op", "op_cmd")
        /\ wire' = wire \ {<<"op", "ExecuteScript">>}
        /\ SetLocks(Drop(Now, "op", "driver", "r"))
        /\ Done("op", IF ok THEN "Ok" ELSE "WebDriver")
        /\ UNCHANGED <<capsCached, driver, cdp, quitCount, lockFrame>>

BrowserVersionStep ==
    \/ bv_start \/ bv_guard \/ sc_lock \/ sc_driver \/ sc_cmd
    \/ bv_version \/ bv_cdp \/ bv_cdp_cmd \/ bv_script \/ bv_script_cmd
CloseStep == cl_start \/ cl_cdp \/ cl_driver \/ cl_quit
ScriptStep == op_start \/ op_guard \/ op_cmd
GrantStep == \E l \in Locks : Grant(l)

\* ---------------------------------------------------------------- load state
WaitUntilState == {"Load", "DomContentLoaded", "NetworkIdle", "Commit"}
RequestIds == {"A", "B"}

LoadStateSnapshot_default ==
    [domcontentloaded |-> FALSE, load |-> FALSE, network_idle |-> FALSE, commit |-> FALSE]

Msg(kind, method, name, requestId) ==
    [kind |-> kind, method |-> method, name |-> name, requestId |-> requestId, seq |-> 0]
NoMsg == Msg("none", "", "", "none")

\* What the websocket can deliver: CDP events, other JSON, text that is not
\* JSON, and control frames.  requestId / name "none" = the field is missing.
Messages ==
    {Msg("text", m, "none", "none") :
        m \in {"Page.domContentEventFired", "Page.loadEventFired", "Page.frameNavigated",
               "Page.frameStartedLoading", "Other"}}
    \cup {Msg("text", "Page.lifecycleEvent", n, "none") :
        n \in {"DOMContentLoaded", "load", "networkIdle", "networkAlmostIdle", "commit",
               "init", "none"}}
    \cup {Msg("text", m, "none", r) :
        m \in {"Network.requestWillBeSent", "Network.loadingFinished",
               "Network.loadingFailed"},
        r \in RequestIds \cup {"none"}}
    \cup {Msg("garbage", "", "none", "none"), Msg("control", "", "none", "none")}

\* load_state_reached with each state reading its own flag only.
load_state_reached_own_flag(state, snap) ==
    CASE state = "Load" -> snap.load
      [] state = "DomContentLoaded" -> snap.domcontentloaded
      [] state = "NetworkIdle" -> snap.network_idle
      [] state = "Commit" -> snap.commit

load_state_reached(state, snap) ==
    CASE state = "Load" -> snap.load
      [] state = "DomContentLoaded" -> snap.domcontentloaded \/ snap.load
      [] state = "NetworkIdle" -> snap.network_idle
      [] state = "Commit" -> snap.commit \/ snap.domcontentloaded \/ snap.load

\* The match over `method` that never debounces: the page is idle as soon as
\* the last request has finished.
handle_message_no_debounce(msg, snap, infl, timer) ==
    IF msg.kind = "text" /\ msg.method \in {"Network.loadingFinished", "Network.loadingFailed"}
       /\ infl \ {msg.requestId} = {}
    THEN [snapshot |-> [snap EXCEPT !.network_idle = TRUE],
          inflight |-> infl \ {msg.requestId}, idle_timer |-> timer]
    ELSE [snapshot |-> snap, inflight |-> infl, idle_timer |-> timer]

\* A match over `method` in which a frame that starts loading clears the flags.
handle_message_reloading(msg, snap, infl, timer) ==
    [snapshot |-> CASE msg.method = "Page.loadEventFired" -> [snap EXCEPT !.load = TRUE]
                    [] msg.method = "Page.frameStartedLoading" -> LoadStateSnapshot_default
                    [] OTHER -> snap,
     inflight |-> infl, idle_timer |-> timer]

\* The network arms of a match over `method`; `idle`, `kept` and `rearm` say
\* what requestWillBeSent does to the flag and to the timer and when
\* loadingFinished / loadingFailed arms the timer.
NetworkArms(msg, snap, infl, timer, idle, kept, rearm) ==
    IF msg.kind = "text" /\ msg.method = "Network.requestWillBeSent" /\ msg.requestId # "none"
    THEN [snapshot |-> [snap EXCEPT !.network_idle = idle],
          inflight |-> infl \cup {msg.requestId},
          idle_timer |-> kept]
    ELSE IF msg.kind = "text"
            /\ msg.method \in {"Network.loadingFinished", "Network.loadingFailed"}
    THEN LET left == IF msg.requestId # "none" THEN infl \ {msg.requestId} ELSE infl IN
         [snapshot |-> snap,
          inflight |-> left,
          idle_timer |-> IF left = {} /\ (rearm \/ timer = <<>>) THEN <<IdleTicks>> ELSE timer]
    ELSE [snapshot |-> snap, inflight |-> infl, idle_timer |-> timer]

\* A match over `method` in which requestWillBeSent leaves network_idle as it was.
handle_message_idle_sticky(msg, snap, infl, timer) ==
    NetworkArms(msg, snap, infl, timer, snap.network_idle, <<>>, FALSE)

\* A match over `method` in which requestWillBeSent leaves the idle timer armed.
handle_message_keep_timer(msg, snap, infl, timer) ==
    NetworkArms(msg, snap, infl, timer, FALSE, timer, FALSE)

\* A match over `method` in which every loadingFinished / loadingFailed that
\* finds the set empty starts the 500ms again.
handle_message_rearm(msg, snap, infl, timer) ==
    NetworkArms(msg, snap, infl, timer, FALSE, <<>>, TRUE)

\* The match over `method` of one message, with the timer as the select arm
\* left it (restored when it was armed).
handle_message(msg, snap, infl, timer) ==
    LET same == [snapshot |-> snap, inflight |-> infl, idle_timer |-> timer] IN
    IF msg.kind # "text" THEN same
    ELSE CASE msg.method = "Page.domContentEventFired" ->
                [same EXCEPT !.snapshot.domcontentloaded = TRUE]
           [] msg.method = "Page.loadEventFired" ->
                [same EXCEPT !.snapshot.load = TRUE]
           [] msg.method = "Page.lifecycleEvent" ->
                CASE msg.name = "DOMContentLoaded" ->
                        [same EXCEPT !.snapshot.domcontentloaded = TRUE]
                  [] msg.name = "load" -> [same EXCEPT !.snapshot.load = TRUE]
                  [] msg.name \in {"networkIdle", "networkAlmostIdle"} ->
                        [same EXCEPT !.snapshot.network_idle = TRUE]
                  [] msg.name = "commit" -> [same EXCEPT !.snapshot.commit = TRUE]
                  [] OTHER -> same
           [] msg.method \in {"Page.frameNavigated", "Page.frameStartedLoading"} ->
                [same EXCEPT !.snapshot.commit = TRUE]
           [] msg.method = "Network.requestWillBeSent" ->
                IF msg.requestId # "none"
                THEN [snapshot |-> [snap EXCEPT !.network_idle = FALSE],
                      inflight |-> infl \cup {msg.requestId},
                      idle_timer |-> <<>>]
                ELSE same
           [] msg.method \in {"Network.loadingFinished", "Network.loadingFailed"} ->
                LET left == IF msg.requestId # "none" THEN infl \ {msg.requestId} ELSE infl IN
                [snapshot |-> snap,
                 inflight |-> left,
                 idle_timer |-> IF left = {} /\ timer = <<>> THEN <<IdleTicks>> ELSE timer]
           [] OTHER -> same

\* Where the run stands in the sequence req(A), req(B), fin(A), fin(B).
Scenario ==
    <<Msg("text", "Network.requestWillBeSent", "none", "A"),
      Msg("text", "Network.requestWillBeSent", "none", "B"),
      Msg("text", "Network.loadingFinished", "none", "A"),
      Msg("text", "Network.loadingFinished", "none", "B")>>
ScenarioNext(n, msg) ==
    IF n >= 0 /\ n < Len(Scenario) /\ Scenario[n + 1] = msg THEN n + 1 ELSE -1

waitFrame == <<sessionVars, browserVars, contexts, callerVars, lockVars>>
cdpFrame == <<ready, wout, wasReached, wmsg, wquery, waitFrame>>

\* Whether a page whose document.readyState is rs has reached `state`
\* (network idleness cannot be read off the page).
PageReached(state, rs) ==
    CASE state = "Load" -> rs = "complete"
      [] state = "DomContentLoaded" -> rs \in {"interactive", "complete"}
      [] state = "Commit" -> rs # "loading"
      [] OTHER -> FALSE

\* wait_for_load_state(state, timeout) is entered: `start` is taken, and the
\* match goes to the Load arm or to wait_for_load_state_via_cdp.
wait_for_load_state ==
    \E state \in WaitUntilState, t \in 1..MaxWait :
        /\ wpc = "idle"
        /\ wstate' = state
        /\ deadline' = t
        /\ wout' = "Pending"
        /\ wasReached' = PageReached(state, ready)
        /\ wpc' = IF state = "Load" THEN "title" ELSE "cdp"
        /\ wres' = "None"
        /\ wmsg' = ""
        /\ wquery' = "None"
        /\ UNCHANGED <<snapshot, inflight, idle_timer, silence, lastMsg, scn, ready, waitFrame>>

\* wait_for_load_state_via_cdp is entered: the websocket is found and
\* connected (or not: Ok(None)), the domains are enabled, the loop starts.
wait_for_load_state_via_cdp ==
    \E up \in BOOLEAN :
        /\ wpc = "cdp"
        /\ wpc' = IF driver_guard = "Ok" /\ up THEN "loop" ELSE "done"
        /\ wres' = IF driver_guard # "Ok" THEN "BrowserClosed" ELSE "None"
        /\ snapshot' = LoadStateSnapshot_default
        /\ inflight' = {}
        /\ idle_timer' = <<>>
        /\ silence' = 0
        /\ lastMsg' = NoMsg
        /\ scn' = 0
        /\ UNCHANGED <<wstate, deadline, cdpFrame>>

\* loop top: if Self::load_state_reached(state, &snapshot) { return Ok(Some(())) }
wl_reached ==
    /\ wpc = "loop"
    /\ load_state_reached(wstate, snapshot)
    /\ wpc' = "done"
    /\ wres' = "Ok"
    /\ UNCHANGED <<wstate, snapshot, inflight, idle_timer, deadline, silence, lastMsg, scn,
                   cdpFrame>>

\* select!: _ = &mut sleep_until => return Err(timeout)
wl_deadline ==
    /\ wpc = "loop"
    /\ ~load_state_reached(wstate, snapshot)
    /\ deadline = 0
    /\ wpc' = "done"
    /\ wres' = "Timeout"
    /\ UNCHANGED <<wstate, snapshot, inflight, idle_timer, deadline, silence, lastMsg, scn,
                   cdpFrame>>

\* select!: _ = &mut idle_sleep => { snapshot.network_idle = true; idle_timer = None }
wl_idle ==
    /\ wpc = "loop"
    /\ ~load_state_reached(wstate, snapshot)
    /\ idle_timer = <<0>>
    /\ snapshot' = [snapshot EXCEPT !.network_idle = TRUE]
    /\ idle_timer' = <<>>
    /\ UNCHANGED <<wpc, wstate, wres, inflight, deadline, silence, lastMsg, scn, cdpFrame>>

Read(msg) ==
    LET n == handle_message(msg, snapshot, inflight, idle_timer) IN
    /\ snapshot' = n.snapshot
    /\ inflight' = n.inflight
    /\ idle_timer' = n.idle_timer
    /\ silence' = 0
    /\ lastMsg' = [msg EXCEPT !.seq = 1 - lastMsg.seq]
    /\ scn' = ScenarioNext(scn, msg)
    /\ UNCHANGED <<wpc, wstate, wres, deadline, cdpFrame>>

\* select! with the idle timer armed: message = ws_stream.next() => ...
wl_message_armed ==
    \E msg \in Messages :
        /\ wpc = "loop"
        /\ ~load_state_reached(wstate, snapshot)
        /\ idle_timer # <<>>
        /\ Read(msg)

\* select! without idle timer: message = ws_stream.next() => ...
wl_message ==
    \E msg \in Messages :
        /\ wpc = "loop"
        /\ ~load_state_reached(wstate, snapshot)
        /\ idle_timer = <<>>
        /\ Read(msg)

\* The websocket fails or ends: return Ok(None), the caller falls back.
wl_stream_end ==
    /\ wpc = "loop"
    /\ ~load_state_reached(wstate, snapshot)
    /\ wpc' = "done"
    /\ wres' = "None"
    /\ UNCHANGED <<wstate, snapshot, inflight, idle_timer, deadline, silence, lastMsg, scn,
                   cdpFrame>>

\* One tick (100ms) passes while the wait is suspended in select!.
Tick ==
    /\ wpc = "loop"
    /\ deadline' = IF deadline > 0 THEN deadline - 1 ELSE 0
    /\ idle_timer' = IF idle_timer # <<>> /\ idle_timer[1] > 0
                     THEN <<idle_timer[1] - 1>> ELSE idle_timer
    /\ silence' = Min(silence + 1, IdleTicks)
    /\ deadline > 0 \/ (idle_timer # <<>> /\ idle_timer[1] > 0) \/ silence < IdleTicks
    /\ UNCHANGED <<wpc, wstate, wres, snapshot, inflight, lastMsg, scn, cdpFrame>>

pollFrame == <<wstate, wres, snapshot, inflight, idle_timer, silence, lastMsg, scn, ready,
               wasReached, waitFrame>>

\* wait_for_load_state returns r; m is the message of an error.
Returns(r, m) == wpc' = "idle" /\ wout' = r /\ wmsg' = m

\* The operation named by the Timeout of each arm of wait_for_load_state.
TimeoutMessage(state) ==
    CASE state = "Load" -> "wait for load state: load"
      [] state = "DomContentLoaded" -> "wait for load state: domcontentloaded"
      [] state = "NetworkIdle" -> "wait for load state: networkidle"
      [] state = "Commit" -> "wait for load state: commit"

\* The Load arm taking any answer within the timeout, an error too, as success.
wls_title_any_answer ==
    \E tf \in BOOLEAN, late \in BOOLEAN :
        /\ wpc = "title"
        /\ late => ready # "complete"
        /\ CASE driver_guard # "Ok" ->
                  Returns("BrowserClosed", "") /\ wquery' = "None" /\ UNCHANGED deadline
             [] driver_guard = "Ok" /\ late ->
                  Returns("Timeout", TimeoutMessage("Load")) /\ wquery' = "Late" /\ deadline' = 0
             [] OTHER ->
                  /\ Returns("Ok", "")
                  /\ wquery' = (IF tf THEN "WebDriver" ELSE "Ok")
                  /\ UNCHANGED deadline
        /\ UNCHANGED pollFrame

\* Load arm: timeout(timeout, driver.title()).  The answer of a page that is
\* still loading may arrive after the timeout.
wls_title ==
    \E tf \in BOOLEAN, late \in BOOLEAN :
        /\ wpc = "title"
        /\ late => ready # "complete"
        /\ CASE driver_guard # "Ok" ->
                  Returns("BrowserClosed", "") /\ wquery' = "None" /\ UNCHANGED deadline
             [] driver_guard = "Ok" /\ late ->
                  Returns("Timeout", TimeoutMessage("Load")) /\ wquery' = "Late" /\ deadline' = 0
             [] driver_guard = "Ok" /\ ~late /\ tf ->
                  /\ Returns("ActionFailed", "Failed to wait for load state 'load'")
                  /\ wquery' = "WebDriver"
                  /\ UNCHANGED deadline
             [] OTHER -> Returns("Ok", "") /\ wquery' = "Ok" /\ UNCHANGED deadline
        /\ UNCHANGED pollFrame

\* The match with an arm that returns the Timeout of wait_for_load_state_via_cdp.
wls_after_cdp_propagating ==
    /\ wpc = "done"
    /\ CASE wres = "Ok" -> Returns("Ok", "")
         [] wres = "BrowserClosed" -> Returns("BrowserClosed", "")
         [] wres = "Timeout" -> Returns("Timeout", "wait for load state via CDP")
         [] OTHER -> wpc' = "poll" /\ UNCHANGED <<wout, wmsg>>
    /\ snapshot' = LoadStateSnapshot_default
    /\ inflight' = {}
    /\ idle_timer' = <<>>
    /\ silence' = 0
    /\ lastMsg' = NoMsg
    /\ scn' = 0
    /\ UNCHANGED <<wstate, wres, deadline, ready, wasReached, wquery, waitFrame>>

\* The match on what wait_for_load_state_via_cdp returned: Ok(Some) and
\* BrowserClosed are returned, everything else falls back to polling.  The
\* locals of wait_for_load_state_via_cdp are gone.
wls_after_cdp ==
    /\ wpc = "done"
    /\ CASE wres = "Ok" -> Returns("Ok", "")
         [] wres = "BrowserClosed" -> Returns("BrowserClosed", "")
         [] OTHER -> wpc' = "poll" /\ UNCHANGED <<wout, wmsg>>
    /\ snapshot' = LoadStateSnapshot_default
    /\ inflight' = {}
    /\ idle_timer' = <<>>
    /\ silence' = 0
    /\ lastMsg' = NoMsg
    /\ scn' = 0
    /\ UNCHANGED <<wstate, wres, deadline, ready, wasReached, wquery, waitFrame>>

\* The comparison with network idleness taken from a single read of
\* document.readyState.
PollSays_single_read(state, rs) ==
    CASE state = "DomContentLoaded" -> IF rs \in {"interactive", "complete"} THEN "Ok" ELSE "sleep"
      [] state = "NetworkIdle" -> IF rs = "complete" THEN "Ok" ELSE "sleep"
      [] OTHER -> IF rs # "loading" THEN "Ok" ELSE "sleep"

\* What one comparison of document.readyState decides for the polled state.
PollSays(state, rs) ==
    CASE state = "DomContentLoaded" -> IF rs \in {"interactive", "complete"} THEN "Ok" ELSE "sleep"
      [] state = "NetworkIdle" -> IF rs = "complete" THEN "settle" ELSE "sleep"
      [] OTHER -> IF rs # "loading" THEN "Ok" ELSE "sleep"

\* One turn of a polling loop: the elapsed-time test, then
\* execute_script("return document.readyState").await? and its comparison.
wls_poll ==
    \E tf \in BOOLEAN :
        LET r == DriverCall("ExecuteScript", tf) IN
        /\ wpc = "poll"
        /\ CASE deadline = 0 ->
                  Returns("Timeout", TimeoutMessage(wstate)) /\ UNCHANGED wquery
             [] deadline > 0 /\ r.kind # "Ok" ->
                  Returns(r.kind, r.msg) /\ wquery' = r.kind
             [] deadline > 0 /\ r.kind = "Ok" /\ PollSays(wstate, ready) = "Ok" ->
                  Returns("Ok", "") /\ wquery' = "Ok"
             [] OTHER ->
                  wpc' = PollSays(wstate, ready) /\ wquery' = "Ok" /\ UNCHANGED <<wout, wmsg>>
        /\ UNCHANGED <<deadline, pollFrame>>

\* tokio::time::sleep(100ms) at the end of a turn.
wls_sleep ==
    /\ wpc = "sleep"
    /\ wpc' = "poll"
    /\ deadline' = IF deadline > 0 THEN deadline - 1 ELSE 0
    /\ UNCHANGED <<wout, wmsg, wquery, pollFrame>>

\* NetworkIdle polling: sleep(500ms), then the second readyState read.
wls_settle ==
    \E tf \in BOOLEAN :
        LET r == DriverCall("ExecuteScript", tf) IN
        /\ wpc = "settle"
        /\ deadline' = IF deadline > IdleTicks THEN deadline - IdleTicks ELSE 0
        /\ wquery' = r.kind
        /\ CASE r.kind # "Ok" -> Returns(r.kind, r.msg)
             [] r.kind = "Ok" /\ ready = "complete" -> Returns("Ok", "")
             [] OTHER -> wpc' = "sleep" /\ UNCHANGED <<wout, wmsg>>
        /\ UNCHANGED pollFrame

\* The page goes on loading.
PageLoads ==
    /\ ready # "complete"
    /\ ready' = IF ready = "loading" THEN "interactive" ELSE "complete"
    /\ UNCHANGED <<wpc, wstate, wres, snapshot, inflight, idle_timer, deadline, silence,
                   lastMsg, scn, wout, wasReached, wmsg, wquery, waitFrame>>

\* The page starts loading again (a reload, a redirect by script).
PageReloads ==
    /\ ready = "complete"
    /\ ready' = "loading"
    /\ UNCHANGED <<wpc, wstate, wres, snapshot, inflight, idle_timer, deadline, silence,
                   lastMsg, scn, wout, wasReached, wmsg, wquery, waitFrame>>

\* ---------------------------------------------------------------- Browser, BrowserContext, Page
\* A context is the list of its pages, a page is its `closed` flag.
\* The tracked pages: page i of context k is <<k, i>>.
PageOf == {p \in (1..MaxContexts) \X (1..MaxPages) :
              p[1] <= Len(contexts) /\ p[2] <= Len(contexts[p[1]])}

\* BrowserContext::close on a page list: page.close() on every page.
CloseAll(pages) == [i \in 1..Len(pages) |-> TRUE]

\* Page::new: the page, or the error of the stealth injection when it is on.
Page_new(stealth) ==
    IF stealth = "fails" THEN R("ActionFailed", "Failed to inject stealth script", 0)
    ELSE R("Ok", "", 0)

StealthRequests(stealth) == IF stealth = "off" THEN <<>> ELSE <<"ExecuteCdp">>

\* Browser::new_context(options): BrowserClosed on a closed session, else the
\* storage state (when given) is applied and the context is tracked.
Browser_new_context(c) ==
    \E st \in {"none", "ok", "fails"} :
        LET r == IF ~driver THEN R("BrowserClosed", "", 0)
                 ELSE IF st = "fails" THEN R("WebDriver", "AddCookie", 0)
                 ELSE R("Ok", "", 0) IN
        /\ driver => Len(contexts) < MaxContexts
        /\ Single(c, "new_context", "",
                  IF driver /\ st # "none" THEN <<"AddCookie">> ELSE <<>>, r)
        /\ contexts' = IF r.kind = "Ok" THEN Append(contexts, <<>>) ELSE contexts
        /\ UNCHANGED <<sessionVars, browserVars, evals, attempt, restVars>>

\* BrowserContext::new_page on tracked context k: ContextClosed on a closed
\* session, else Page::new and the page is tracked.
BrowserContext_new_page(c) ==
    \E k \in 1..Len(contexts), stealth \in {"off", "ok", "fails"} :
        LET r == IF ~driver THEN R("ContextClosed", "", 0) ELSE Page_new(stealth) IN
        /\ driver => Len(contexts[k]) < MaxPages
        /\ Single(c, "new_page", "", IF driver THEN StealthRequests(stealth) ELSE <<>>, r)
        /\ contexts' = IF r.kind = "Ok"
                       THEN [contexts EXCEPT ![k] = Append(contexts[k], FALSE)]
                       ELSE contexts
        /\ UNCHANGED <<sessionVars, browserVars, evals, attempt, restVars>>

\* Browser::new_page: new_context(default options)?, then context.new_page()?
Browser_new_page(c) ==
    \E stealth \in {"off", "ok", "fails"} :
        LET r == IF ~driver THEN R("BrowserClosed", "", 0) ELSE Page_new(stealth) IN
        /\ driver => Len(contexts) < MaxContexts
        /\ Single(c, "browser_new_page", "",
                  IF driver THEN StealthRequests(stealth) ELSE <<>>, r)
        /\ contexts' = IF ~driver THEN contexts
                       ELSE Append(contexts, IF r.kind = "Ok" THEN <<FALSE>> ELSE <<>>)
        /\ UNCHANGED <<sessionVars, browserVars, evals, attempt, restVars>>

\* BrowserContext::close on tracked context k: every page is closed, Ok(()).
BrowserContext_close(c) ==
    \E k \in 1..Len(contexts) :
        /\ Single(c, "context_close", "", <<>>, R("Ok", "", 0))
        /\ contexts' = [contexts EXCEPT ![k] = CloseAll(contexts[k])]
        /\ UNCHANGED <<sessionVars, browserVars, evals, attempt, restVars>>

\* Page::close on a tracked page: the flag is set, Ok(()).
Page_close(c) ==
    \E p \in PageOf :
        /\ Single(c, "page_close", "", <<>>, R("Ok", "", 0))
        /\ contexts' = [contexts EXCEPT ![p[1]][p[2]] = TRUE]
        /\ UNCHANGED <<sessionVars, browserVars, evals, attempt, restVars>>

\* Page::is_closed on a tracked page.
Page_is_closed(c) ==
    \E p \in PageOf :
        /\ Single(c, "page_is_closed", "", <<>>,
                  IF contexts[p[1]][p[2]] THEN R("True", "", 0) ELSE R("False", "", 0))
        /\ UNCHANGED <<sessionVars, browserVars, contexts, evals, attempt, restVars>>

PageOps == {"page_goto", "page_screenshot"}

PageRequest(op) == IF op = "page_goto" THEN "Navigate" ELSE "Screenshot"

\* Page::goto / Page::screenshot on a tracked page: PageClosed when the flag
\* is set, else the adapter's operation.
Page_goto(c) ==
    \E p \in PageOf, op \in PageOps, tf \in BOOLEAN :
        LET closed == contexts[p[1]][p[2]]
            r == IF closed THEN R("PageClosed", "", 0) ELSE DriverCall(PageRequest(op), tf) IN
        /\ Single(c, op, "",
                  IF closed THEN <<>> ELSE Issued(driver_guard, PageRequest(op)), r)
        /\ scope' = IF op = "page_goto" /\ r.kind = "Ok" THEN <<>> ELSE scope
        /\ UNCHANGED <<sessionVars, frames, btn, items, contexts, evals, attempt, restVars>>

\* A Browser::close that only closes the session.
Browser_close_session_only(c) ==
    \E tf \in BOOLEAN :
        /\ closeCalls < MaxCloseCalls
        /\ closeCalls' = closeCalls + 1
        /\ cdp' = FALSE
        /\ driver' = FALSE
        /\ quitCount' = IF driver THEN quitCount + 1 ELSE quitCount
        /\ Single(c, "browser_close", "", IF driver THEN <<"Quit">> ELSE <<>>,
                  IF driver /\ tf THEN R("WebDriver", "Quit", 0) ELSE R("Ok", "", 0))
        /\ UNCHANGED <<browserVars, contexts, evals, attempt, restVars>>

\* Browser::close: `let _ = context.close().await` for every tracked context,
\* then self.adapter.close().await?
Browser_close(c) ==
    \E tf \in BOOLEAN :
        /\ closeCalls < MaxCloseCalls
        /\ closeCalls' = closeCalls + 1
        /\ contexts' = [k \in 1..Len(contexts) |-> CloseAll(contexts[k])]
        /\ cdp' = FALSE
        /\ driver' = FALSE
        /\ quitCount' = IF driver THEN quitCount + 1 ELSE quitCount
        /\ Single(c, "browser_close", "", IF driver THEN <<"Quit">> ELSE <<>>,
                  IF driver /\ tf THEN R("WebDriver", "Quit", 0) ELSE R("Ok", "", 0))
        /\ UNCHANGED <<browserVars, evals, attempt, restVars>>

\* ---------------------------------------------------------------- browser
\* The page changes under the callers: iframes load, elements come and go.
FrameLoads ==
    /\ \E f \in FrameSelectors \ frames : frames' = frames \cup {f}
    /\ UNCHANGED <<scope, btn, items, contexts, sessionVars, callerVars, restVars>>

BtnChange ==
    /\ btn' = ~btn
    /\ UNCHANGED <<scope, frames, items, contexts, sessionVars, callerVars, restVars>>

ItemsChange ==
    /\ \E k \in 0..MaxMatches : k # items /\ items' = k
    /\ UNCHANGED <<scope, frames, btn, contexts, sessionVars, callerVars, restVars>>

\* ---------------------------------------------------------------- system
vars == <<driver, cdp, quitCount, closeCalls, scope, frames, btn, items, contexts,
          pc, cur, plan, elapsed, elem, inner, result, attempt, reqs, evals,
          tpc, tres, lkR, lkW, lkQ, capsCached, wire,
          wpc, wstate, wres, snapshot, inflight, idle_timer, deadline, silence,
          lastMsg, scn, ready, wout, wasReached, wmsg, wquery>>

Init ==
    /\ driver = TRUE
    /\ cdp = TRUE
    /\ quitCount = 0
    /\ closeCalls = 0
    /\ scope = <<>>
    /\ frames = {}
    /\ btn = FALSE
    /\ items = 0
    /\ contexts = <<>>
    /\ pc = [c \in Callers |-> "idle"]
    /\ cur = [c \in Callers |-> NoCall]
    /\ plan = [c \in Callers |-> <<>>]
    /\ elapsed = [c \in Callers |-> 0]
    /\ elem = [c \in Callers |-> NoElem]
    /\ inner = [c \in Callers |-> NoResult]
    /\ result = [c \in Callers |-> NoResult]
    /\ attempt = [c \in Callers |-> NoAttempt]
    /\ reqs = [c \in Callers |-> <<>>]
    /\ evals = [c \in Callers |-> <<>>]
    /\ tpc = [t \in Tasks |-> "idle"]
    /\ tres = [t \in Tasks |-> "None"]
    /\ lkR = [l \in Locks |-> [t \in Tasks |-> 0]]
    /\ lkW = [l \in Locks |-> "none"]
    /\ lkQ = [l \in Locks |-> <<>>]
    /\ capsCached = FALSE
    /\ wire = {}
    /\ wpc = "idle"
    /\ wstate = "DomContentLoaded"
    /\ wres = "None"
    /\ snapshot = LoadStateSnapshot_default
    /\ inflight = {}
    /\ idle_timer = <<>>
    /\ deadline = 0
    /\ silence = 0
    /\ lastMsg = NoMsg
    /\ scn = 0
    /\ ready = "loading"
    /\ wout = "None"
    /\ wasReached = FALSE
    /\ wmsg = ""
    /\ wquery = "None"

\* One caller using the adapter's own operations, then closing the session.
Next ==
    \/ goto(1)
    \/ find_element(1)
    \/ find_elements(1)
    \/ execute_script(1)
    \/ screenshot(1)
    \/ switch_to_default_content(1)
    \/ switch_to_parent_frame(1)
    \/ switch_to_frame_by_selector(1)
    \/ SwitchStep(1)
    \/ execute_cdp(1)
    \/ is_closed(1)
    \/ close(1)
    \/ FrameLoads
    \/ ItemsChange

Spec == Init /\ [][Next]_vars

\* One caller using frame locators, and top-level queries between them.
NextFrame ==
    \/ FrameStep(1)
    \/ find_element(1)
    \/ FrameLoads
    \/ BtnChange

SpecFrame == Init /\ [][NextFrame]_vars

\* One caller using locators on a page whose match list changes, and
\* closing the session between two actions.
NextLocator ==
    \/ locator_action(1)
    \/ count(1)
    \/ LocatorStep(1)
    \/ close(1)
    \/ ItemsChange

SpecLocator == Init /\ [][NextLocator]_vars

\* The runtime keeps polling the caller's future and every round trip completes.
FairSpecLocator == SpecLocator /\ WF_vars(LocatorStep(1))

\* Three tasks on one adapter: browser_version, close and execute_script.
NextLock ==
    \/ BrowserVersionStep
    \/ CloseStep
    \/ ScriptStep
    \/ GrantStep

SpecLock == Init /\ [][NextLock]_vars

\* Every task keeps being polled, every round trip is answered, and the
\* lock hands a free guard to the head of its queue.
FairSpecLock ==
    /\ SpecLock
    /\ WF_vars(BrowserVersionStep)
    /\ WF_vars(CloseStep)
    /\ WF_vars(ScriptStep)
    /\ WF_vars(GrantStep)

\* Two callers on one session and a page whose outer frame is loaded (the
\* inner one never appears): caller 1 acts through frame locators while
\* caller 2 queries the top-level document.
InitConc ==
    /\ driver = TRUE
    /\ cdp = TRUE
    /\ quitCount = 0
    /\ closeCalls = 0
    /\ scope = <<>>
    /\ frames = {F1}
    /\ btn = TRUE
    /\ items = 1
    /\ contexts = <<>>
    /\ pc = [c \in Callers |-> "idle"]
    /\ cur = [c \in Callers |-> NoCall]
    /\ plan = [c \in Callers |-> <<>>]
    /\ elapsed = [c \in Callers |-> 0]
    /\ elem = [c \in Callers |-> NoElem]
    /\ inner = [c \in Callers |-> NoResult]
    /\ result = [c \in Callers |-> NoResult]
    /\ attempt = [c \in Callers |-> NoAttempt]
    /\ reqs = [c \in Callers |-> <<>>]
    /\ evals = [c \in Callers |-> <<>>]
    /\ tpc = [t \in Tasks |-> "idle"]
    /\ tres = [t \in Tasks |-> "None"]
    /\ lkR = [l \in Locks |-> [t \in Tasks |-> 0]]
    /\ lkW = [l \in Locks |-> "none"]
    /\ lkQ = [l \in Locks |-> <<>>]
    /\ capsCached = FALSE
    /\ wire = {}
    /\ wpc = "idle"
    /\ wstate = "DomContentLoaded"
    /\ wres = "None"
    /\ snapshot = LoadStateSnapshot_default
    /\ inflight = {}
    /\ idle_timer = <<>>
    /\ deadline = 0
    /\ silence = 0
    /\ lastMsg = NoMsg
    /\ scn = 0
    /\ ready = "loading"
    /\ wout = "None"
    /\ wasReached = FALSE
    /\ wmsg = ""
    /\ wquery = "None"

NextConc ==
    \/ FrameStep(1)
    \/ find_element(2)

SpecConc == InitConc /\ [][NextConc]_vars

\* One caller mixing adapter queries, script evaluation and locator
\* actions on one session, until somebody closes it.
NextUse ==
    \/ find_element(1)
    \/ execute_script(1)
    \/ locator_action(1)
    \/ LocatorStep(1)
    \/ close(1)
    \/ ItemsChange

SpecUse == Init /\ [][NextUse]_vars

\* The event-driven load-state wait, its websocket and the clock.
NextTracker ==
    \/ wait_for_load_state
    \/ wls_title
    \/ wait_for_load_state_via_cdp
    \/ wls_after_cdp
    \/ wls_poll
    \/ wls_sleep
    \/ wl_reached
    \/ wl_deadline
    \/ wl_idle
    \/ wl_message_armed
    \/ wl_message
    \/ wl_stream_end
    \/ Tick

SpecTracker == Init /\ [][NextTracker]_vars

\* The public objects: contexts and pages are made, used and closed, and the
\* browser is closed, one call at a time.
NextBrowser ==
    \/ Browser_new_context(1)
    \/ Browser_new_page(1)
    \/ BrowserContext_new_page(1)
    \/ BrowserContext_close(1)
    \/ Page_close(1)
    \/ Page_is_closed(1)
    \/ Page_goto(1)
    \/ Browser_close(1)

SpecBrowser == Init /\ [][NextBrowser]_vars

\* wait_for_load_state on a page that goes on loading.
NextWait ==
    \/ NextTracker
    \/ wls_settle
    \/ PageLoads

SpecWait == Init /\ [][NextWait]_vars

\* wait_for_load_state with a websocket that is not there or delivers
\* nothing, on a page that loads and reloads, until somebody closes the session.
NextPoll ==
    \/ wait_for_load_state
    \/ wls_title
    \/ wait_for_load_state_via_cdp
    \/ wl_deadline
    \/ wl_stream_end
    \/ Tick
    \/ wls_after_cdp
    \/ wls_poll
    \/ wls_sleep
    \/ wls_settle
    \/ PageLoads
    \/ PageReloads
    \/ close(1)

SpecPoll == Init /\ [][NextPoll]_vars

\* ---------------------------------------------------------------- session claims
AdapterOps == {"goto", "find_element", "find_elements", "execute_script", "screenshot",
               "switch_to_default_content", "switch_to_parent_frame",
               "switch_to_frame_by_selector", "execute_cdp"}

\* What every state shows once the handle was taken: the last adapter
\* operation put nothing on the wire and returned BrowserClosed, and
\* is_closed() answered true.
ClosedSessionRefuses ==
    ~driver =>
        /\ ~cdp
        /\ cur[1].op \in AdapterOps =>
              /\ reqs[1] = <<>>
              /\ pc[1] = "idle" => result[1].kind = "BrowserClosed"
        /\ cur[1].op = "is_closed" => result[1].kind = "True"

\* C1: once close() has taken the session handle the session is closed for
\* ever: the handle is never present again, is_closed() is true, and every
\* adapter operation returns BrowserClosed without issuing a protocol request.
C1_ClosedForEver ==
    /\ []ClosedSessionRefuses
    /\ [][~driver => ~driver']_vars

C1_Witness ==
    /\ ~driver
    /\ pc[1] = "idle"
    /\ cur[1].op = "switch_to_frame_by_selector"
    /\ result[1].kind = "BrowserClosed"

\* C2: close() is idempotent: a close() on an already-closed session returns
\* success, sends no quit request and leaves the session closed; however many
\* close() calls are made, the quit request is sent at most once.
C2_CloseIdempotent ==
    /\ quitCount <= 1
    /\ closeCalls >= 1 => ~driver /\ ~cdp
    /\ (closeCalls >= 2 /\ cur[1].op = "close") =>
          /\ result[1].kind = "Ok"
          /\ reqs[1] = <<>>

C2_Witness ==
    /\ closeCalls >= 2
    /\ cur[1].op = "close"
    /\ result[1].kind = "Ok"
    /\ quitCount = 1

\* ---------------------------------------------------------------- frame claims
\* The frame action of caller c got through its whole chain: the wrapped
\* action's own find_element was evaluated.
SwitchedIn(c) == cur[c].op \in FrameOps /\ evals[c] # <<>>

Returned(c) == pc[c] = "idle" /\ cur[c].op \in FrameOps

\* The action returned the error of its restoring switch.
RestoreFailed(c) ==
    \/ result[c].kind = "BrowserClosed"
    \/ result[c].kind = "WebDriver" /\ result[c].msg = "SwitchToFrameDefault"

C4_NoStaleScopeAfterFailedWalk ==
    (Returned(1) /\ ~SwitchedIn(1) /\ result[1].kind # "Ok") => scope = <<>>

\* ---------------------------------------------------------------- locator claims
InLocator(c) == cur[c].op \in LocatorOps

\* The last attempt of caller c read a match list (of length attempt[c].k).
ListRead(c) == InLocator(c) /\ cur[c].nth # <<>> /\ attempt[c].kind \in {"Ok", "ElementNotFound"}

\* C5: a locator with index n resolves, on a live match list of length k, to
\* position n when n < k and fails the attempt with a not-found error when
\* n >= k; last() resolves to position k-1 of the list read at that moment.
C5_IndexResolution ==
    ListRead(1) =>
        IF cur[1].ctor = "last"
        THEN IF attempt[1].k > 0
             THEN attempt[1].kind = "Ok" /\ attempt[1].idx = attempt[1].k - 1
             ELSE attempt[1].kind = "ElementNotFound"
        ELSE IF cur[1].nth[1] < attempt[1].k
             THEN attempt[1].kind = "Ok" /\ attempt[1].idx = cur[1].nth[1]
             ELSE attempt[1].kind = "ElementNotFound"

\* A locator whose selector or index can never resolve on this page.
NeverResolves(c) ==
    /\ InLocator(c)
    /\ \/ cur[c].sel = ".none"
       \/ cur[c].nth # <<>> /\ cur[c].nth[1] >= MaxMatches /\ cur[c].nth[1] # UsizeMax

\* C6: a locator action that never resolves retries and then returns a
\* Timeout error: it never returns a success and it always returns.
C6_WaitTerminatesWithTimeout ==
    /\ []((pc[1] = "idle" /\ NeverResolves(1)) => result[1].kind = "Timeout")
    /\ (pc[1] # "idle" /\ NeverResolves(1)) ~> (pc[1] = "idle")

\* An out-of-range nth() was retried and then gave up.
C6_Witness ==
    /\ pc[1] = "idle"
    /\ NeverResolves(1)
    /\ cur[1].sel = ".item"
    /\ items > 0
    /\ Len(reqs[1]) >= 2
    /\ result[1].kind = "Timeout"

\* C7: a resolution attempt that fails because the session is closed ends the
\* locator action at once with BrowserClosed: no sleep, no further attempt,
\* no Timeout in its place.
C7_ClosedNotRetried ==
    (InLocator(1) /\ attempt[1].kind = "BrowserClosed") =>
        /\ pc[1] = "idle"
        /\ result[1].kind = "BrowserClosed"

\* ---------------------------------------------------------------- guard claims
\* C8: under every interleaving of close() with running operations
\* (browser_version included), close() and every operation that was started
\* eventually return.
C8_CloseNeverBlocks ==
    \A t \in Tasks : (tpc[t] \notin {"idle", "done"}) ~> (tpc[t] = "done")

\* ---------------------------------------------------------------- addressing claims
\* The frame selectors of a frame locator, outermost first.
Chain(fl) == Tail(switch_to_frame_context(fl))

\* The context the running (or last) operation of caller c addresses.
Intended(c) == IF cur[c].op \in FrameOps THEN Chain(cur[c].fl[1]) ELSE <<>>

\* C9: with the session-handle guard as the only lock, every element query
\* of concurrent callers is evaluated in the context its own caller
\* addressed: never a top-level query inside a frame, never a frame query
\* inside another caller's frame.
C9_QueriesInIntendedScope ==
    \A c \in Callers : \A i \in 1..Len(evals[c]) : evals[c][i] = Intended(c)

\* ---------------------------------------------------------------- load-state claims
\* After req(A), req(B), fin(A), fin(B) and nothing else: network-idle is
\* false while the timer armed by fin(B) runs, and true only once IdleTicks
\* of silence have passed and that timer has fired.
ScenarioDebounced ==
    scn = Len(Scenario) =>
        IF snapshot.network_idle
        THEN silence >= IdleTicks /\ idle_timer = <<>>
        ELSE idle_timer = <<IdleTicks - silence>>

\* A step that reads loadingFinished / loadingFailed leaves network-idle as it was.
FinishedKeepsIdleFlag ==
    (/\ lastMsg'.seq # lastMsg.seq
     /\ lastMsg'.method \in {"Network.loadingFinished", "Network.loadingFailed"})
    => snapshot'.network_idle = snapshot.network_idle

\* C10: after requestWillBeSent(A), requestWillBeSent(B), loadingFinished(A),
\* loadingFinished(B) network-idle is still false, and it becomes true only
\* when the 500ms idle timer armed at that point fires; network-idle never
\* becomes true in the step that reads a loadingFinished/loadingFailed event.
C10_IdleOnlyAfterSilence ==
    /\ []ScenarioDebounced
    /\ [][FinishedKeepsIdleFlag]_vars

C10_Witness ==
    /\ scn = Len(Scenario)
    /\ snapshot.network_idle
    /\ silence >= IdleTicks
    /\ wres = "Ok"

\* C11: wait_for_load_state(state, timeout) on a page that had already
\* reached the state at the call returns success without waiting for a push
\* event (so never Timeout); otherwise the event-driven wait succeeds only
\* with the requested flag true, and a Timeout is returned only once the
\* deadline has elapsed.
C11_WaitForState ==
    /\ wout = "Timeout" => ~wasReached
    /\ wout = "Timeout" => deadline = 0
    /\ (wpc = "done" /\ wres = "Ok") => load_state_reached(wstate, snapshot)

Flags == {"domcontentloaded", "load", "network_idle", "commit"}

\* C12 (as stated): within one wait each of the four flags, once true, is
\* still true after any further push event.
C12_FlagsMonotonic ==
    [][wpc = "loop" => \A f \in Flags : snapshot[f] => snapshot'[f]]_vars

\* C12 (amended): within one wait dom-ready, load and committed stay true
\* once true; network-idle goes back to false only on a requestWillBeSent
\* that carries a request id, and never in a wait for network-idle.
C12_FlagsMonotonicButIdle ==
    [][wpc = "loop" =>
        /\ \A f \in Flags \ {"network_idle"} : snapshot[f] => snapshot'[f]
        /\ (snapshot.network_idle /\ ~snapshot'.network_idle) =>
              /\ wstate # "NetworkIdle"
              /\ lastMsg'.method = "Network.requestWillBeSent"
              /\ lastMsg'.requestId # "none"]_vars

\* A wait that saw load and dom-ready and then read a request.
C12_Witness ==
    /\ wpc = "loop"
    /\ snapshot.load
    /\ snapshot.domcontentloaded
    /\ lastMsg.method = "Network.requestWillBeSent"
    /\ inflight = {"A"}

\* ---------------------------------------------------------------- query claims
\* Caller 1's find / find_all of the selector that matches nothing has returned.
FoundNothing(op) == pc[1] = "idle" /\ cur[1].op = op /\ cur[1].sel = ".none"

\* The query was sent (the session was open) and the browser answered it.
Answered == reqs[1] # <<>> /\ result[1].kind # "WebDriver"

\* C13: for a selector that matches no element, whenever the browser
\* evaluates the query, find fails with ElementNotFound and find_all returns
\* an empty list and never an error.
C13_NoMatchWhenAnswered ==
    /\ (FoundNothing("find_element") /\ Answered) => result[1].kind = "ElementNotFound"
    /\ (FoundNothing("find_elements") /\ Answered) => result[1] = R("Ok", ".none", 0)

C13_Witness ==
    /\ FoundNothing("find_elements")
    /\ Answered
    /\ result[1] = R("Ok", ".none", 0)

\* What count() leaves behind: at most one FindElements query (exactly one on
\* an open session), no wait, and never a not-found error or a Timeout; an
\* answered query is a success, 0 for the selector that matches nothing.
CountOnce ==
    cur[1].op = "count" =>
        /\ pc[1] = "idle"
        /\ elapsed[1] = 0
        /\ reqs[1] = IF result[1].kind = "BrowserClosed" THEN <<>> ELSE <<"FindElements">>
        /\ result[1].kind \in {"Ok", "BrowserClosed", "WebDriver"}
        /\ (result[1].kind = "Ok" /\ cur[1].sel = ".none") => result[1].val = 0

\* A count() step returns the length of the list the browser matches then.
CountIsLength ==
    (/\ cur'[1].op = "count"
     /\ <<cur[1], result[1]>>' # <<cur[1], result[1]>>
     /\ result'[1].kind = "Ok")
    => result'[1].val = Count(cur'[1].sel, scope)

\* C14: count() issues exactly one find_all query, never sleeps or retries,
\* and returns the length of the result; when nothing matches it returns 0
\* as a success, not an error or a Timeout.
C14_CountOnce ==
    /\ []CountOnce
    /\ [][CountIsLength]_vars

C14_Witness ==
    /\ cur[1].op = "count"
    /\ cur[1].sel = ".none"
    /\ cur[1].nth = <<1>>
    /\ reqs[1] = <<"FindElements">>
    /\ result[1] = R("Ok", ".none", 0)

\* ---------------------------------------------------------------- chain claims
IsScopeOp(r) == r \in {"SwitchToFrameDefault", "SwitchToFrameElement"}
EnterOps(n) == [i \in 1..n |-> "SwitchToFrameElement"]

\* The frame selectors the running frame action was built with, outermost first.
Built1 ==
    LET fl == cur[1].fl[1] IN
    IF fl.parent = <<>> THEN <<fl.frame_selector>>
    ELSE <<fl.parent[1].frame_selector, fl.frame_selector>>

\* C15: for a chain [f1, ..., fn] the scope operations of switch_into are, in
\* this order, one reset to the top-level document, then enter f1, ..., then
\* enter fn; the wrapped action runs with the scope at the innermost frame,
\* and after a successful action the scope is the top-level document again.
C15_ChainOrder ==
    /\ (cur[1].op \in FrameOps /\ pc[1] = "fr_default") =>
          /\ plan[1] = <<"default">> \o Built1
          /\ reqs[1] = <<>>
    /\ (cur[1].op \in FrameOps /\ pc[1] \notin {"idle", "fr_default"}) =>
          /\ SelectSeq(reqs[1], IsScopeOp) = <<"SwitchToFrameDefault">> \o EnterOps(Len(scope))
          /\ pc[1] \in {"fr_find_frame", "fr_sleep", "fr_enter"} =>
                plan[1] # <<>> /\ scope \o plan[1] = Built1
          /\ pc[1] \in {"fr_find", "fr_act", "fr_restore"} => scope = Built1
    /\ (Returned(1) /\ result[1].kind = "Ok") =>
          /\ evals[1] = <<Built1>>
          /\ scope = <<>>

\* A click through the two-level chain has succeeded.
C15_Witness ==
    /\ Returned(1)
    /\ result[1].kind = "Ok"
    /\ Built1 = <<F1, F2>>
    /\ evals[1] = <<<<F1, F2>>>>
    /\ SelectSeq(reqs[1], IsScopeOp) =
          <<"SwitchToFrameDefault", "SwitchToFrameElement", "SwitchToFrameElement",
            "SwitchToFrameDefault">>
    /\ scope = <<>>

\* ---------------------------------------------------------------- guard claims, continued
\* The control-protocol requests sent and not yet answered.
Outstanding == {w \in wire : w[2] # "ExecuteCdp"}

\* C16: at most one remote-control request of the session is outstanding at
\* any time, whatever the callers do concurrently.
C16_OneRequestInFlight == Cardinality(Outstanding) <= 1

\* C17: no operation observes a half-closed session: an operation that was
\* refused with BrowserClosed has never returned while the control session
\* was still open.
C17_NoHalfClosedObserved ==
    \A t \in Tasks : (tpc[t] = "done" /\ tres[t] = "BrowserClosed") => ~driver

\* The guards of the session handle task t holds or is queued for.
Acquisitions(t) == lkR["driver"][t] + (IF lkW["driver"] = t THEN 1 ELSE 0)
                   + (IF Waiting(t, "driver") THEN 1 ELSE 0)

\* C18: no adapter method asks for the session-handle guard while it still
\* holds it: a call has at most one acquisition at a time.
C18_GuardAcquiredOnce == \A t \in Tasks : Acquisitions(t) <= 1

\* ---------------------------------------------------------------- failure claims
Failures == {"ElementNotFound", "WebDriver", "Timeout", "ActionFailed"}

\* Only close() changes the session handle and the debugging handle.
HandleKept ==
    (driver' # driver \/ cdp' # cdp) => (cur'[1].op = "close" /\ closeCalls' = closeCalls + 1)

\* A top-level find of "#main" that follows a failed operation on an open
\* session is answered as on a fresh session.
ServedAfterFailure ==
    (/\ pc[1] = "idle" /\ pc'[1] = "idle"
     /\ result[1].kind \in Failures
     /\ driver /\ scope = <<>>
     /\ cur'[1].op = "find_element" /\ cur'[1].sel = "#main"
     /\ reqs'[1] = <<"FindElement">>
     /\ result'[1].kind # "WebDriver")
    => result'[1].kind = "Ok"

\* C19: an operation that returns an error other than a close leaves the
\* session handle present and the open/closed state unchanged, and nothing
\* of the failure is carried over: the next operation is served normally.
C19_FailureLeavesSessionUsable ==
    /\ [][HandleKept]_vars
    /\ [][ServedAfterFailure]_vars
    /\ []((pc[1] = "idle" /\ result[1].kind \in Failures /\ closeCalls = 0) => driver /\ cdp)

\* A locator action has timed out and the session is still open.
C19_Witness ==
    /\ pc[1] = "idle"
    /\ cur[1].op \in LocatorOps
    /\ result[1].kind = "Timeout"
    /\ Len(reqs[1]) >= 2
    /\ driver /\ cdp

\* ---------------------------------------------------------------- resolution claims
\* A locator action holds an element only after it has resolved it itself,
\* and what it acts on and reports is the element of its own last attempt.
ActsOnOwnResolution ==
    InLocator(1) =>
        /\ pc[1] \in {"loc_resolve", "loc_sleep"} => elem[1] = NoElem
        /\ pc[1] = "loc_act" =>
              /\ attempt[1].kind = "Ok"
              /\ elem[1].sel = cur[1].sel
              /\ elem[1].idx = attempt[1].idx
        /\ (pc[1] = "idle" /\ result[1].kind = "Ok") =>
              /\ reqs[1] # <<>>
              /\ reqs[1][1] \in {"FindElement", "FindElements"}
              /\ result[1].val = attempt[1].idx
        /\ (attempt[1].kind = "Ok" /\ cur[1].nth = <<UsizeMax>>) =>
              attempt[1].idx = attempt[1].k - 1

\* An attempt resolves against the matches the page has at that moment.
ResolvesAgainstLivePage ==
    (/\ pc[1] = "loc_resolve"
     /\ pc'[1] # "loc_resolve"
     /\ attempt'[1].kind = "Ok")
    => /\ attempt'[1].k = Count(cur[1].sel, scope)
       /\ attempt'[1].idx < attempt'[1].k

\* C20: a Locator carries no live element reference: every action resolves
\* the selector again against the page as it is at the time of that action,
\* and acts on the element that matches then.
C20_ResolvedOnEveryAction ==
    /\ []ActsOnOwnResolution
    /\ [][ResolvesAgainstLivePage]_vars

\* last() has acted on the second entry of a list that was empty at first.
C20_Witness ==
    /\ InLocator(1)
    /\ pc[1] = "idle"
    /\ cur[1].ctor = "last"
    /\ result[1].kind = "Ok"
    /\ result[1].val = 1
    /\ attempt[1].k = 2

\* ---------------------------------------------------------------- polling claims
\* The wait is in its polling loop.
InPoll == wpc \in {"poll", "sleep", "settle"}

\* The readyState condition that stands for each polled state.
Equivalent(state, rs) ==
    CASE state = "DomContentLoaded" -> rs \in {"interactive", "complete"}
      [] state = "Commit" -> rs # "loading"
      [] OTHER -> rs = "complete"

Elapse(d, n) == IF d > n THEN d - n ELSE 0

\* The steps of the fallback: entered when the channel gave nothing, one
\* readyState read per turn, one tick between two turns, success only on the
\* equivalent condition (for NetworkIdle on the second of two reads IdleTicks
\* apart), Timeout exactly when the budget is used up at the top of a turn.
PollingFallback ==
    /\ (wpc = "done" /\ wpc' # "done" /\ wres = "None") => (wpc' = "poll" /\ wout' = "Pending")
    /\ (wpc = "poll" /\ wpc' # "poll") =>
          IF deadline = 0
          THEN wpc' = "idle" /\ wout' = "Timeout" /\ wquery' = wquery
          ELSE wquery' = "Ok" =>
                 IF wstate = "NetworkIdle"
                 THEN wpc' = (IF ready = "complete" THEN "settle" ELSE "sleep")
                 ELSE IF Equivalent(wstate, ready)
                      THEN wpc' = "idle" /\ wout' = "Ok"
                      ELSE wpc' = "sleep"
    /\ (wpc = "settle" /\ wpc' # "settle") =>
          /\ deadline' = Elapse(deadline, IdleTicks)
          /\ wquery' = "Ok" =>
                 IF ready = "complete" THEN wpc' = "idle" /\ wout' = "Ok" ELSE wpc' = "sleep"
    /\ (wpc = "sleep" /\ wpc' # "sleep") => (wpc' = "poll" /\ deadline' = Elapse(deadline, 1))
    /\ (InPoll /\ wpc' = "idle" /\ wout' = "Timeout") => deadline = 0

\* C21: when the push-event channel is unavailable, a wait for
\* DomContentLoaded, NetworkIdle or Commit polls document.readyState every
\* 100ms; it returns success when the equivalent condition is read
\* (interactive or complete; not loading; complete twice 500ms apart) and
\* Timeout when the budget counted from the start of the wait has elapsed.
C21_PollingFallback ==
    /\ [][PollingFallback]_vars
    /\ [](InPoll => wstate \in {"DomContentLoaded", "NetworkIdle", "Commit"})

\* A NetworkIdle wait without channel succeeded on its second read, after a
\* turn that had slept.
C21_Witness ==
    /\ wpc = "idle"
    /\ wstate = "NetworkIdle"
    /\ wres = "None"
    /\ wout = "Ok"
    /\ wquery = "Ok"
    /\ deadline = 0

\* The name of each requested state.
StateName(state) ==
    CASE state = "Load" -> "load"
      [] state = "DomContentLoaded" -> "domcontentloaded"
      [] state = "NetworkIdle" -> "networkidle"
      [] state = "Commit" -> "commit"

\* C22: every load-state wait that exhausts its budget returns a Timeout
\* that names the requested state, whether the budget ran out in the
\* event-driven wait (whose own Timeout is replaced by the caller's), in the
\* polling loop or in the Load query.
C22_TimeoutNamesState ==
    /\ wout = "Timeout" =>
          /\ deadline = 0
          /\ wmsg = "wait for load state: " \o StateName(wstate)
    /\ (wpc = "idle" /\ wres = "Timeout") => wout = "Timeout"

\* The event-driven wait for network idle ran into its deadline.
C22_Witness ==
    /\ wpc = "idle"
    /\ wres = "Timeout"
    /\ wstate = "NetworkIdle"
    /\ wout = "Timeout"
    /\ wmsg = "wait for load state: networkidle"

\* The step in which the Load query is settled: no query on a closed
\* session, otherwise the result follows what the query did.
LoadFollowsQuery ==
    (wpc = "title" /\ wpc' # "title") =>
        /\ wpc' = "idle"
        /\ IF ~driver
           THEN wout' = "BrowserClosed" /\ wquery' = "None"
           ELSE CASE wquery' = "Ok" -> wout' = "Ok"
                  [] wquery' = "Late" -> wout' = "Timeout" /\ wmsg' = "wait for load state: load"
                  [] wquery' = "WebDriver" -> wout' = "ActionFailed"
                  [] OTHER -> FALSE

\* C23: a wait for Load is settled by the WebDriver query alone and never
\* enters the event-driven wait or the polling loop: success when the query
\* is answered within the timeout, Timeout naming load when it is not,
\* ActionFailed when it is answered with an error, BrowserClosed when the
\* session is closed.
C23_LoadByQuery ==
    /\ [][LoadFollowsQuery]_vars
    /\ [](wstate = "Load" => (wpc \in {"idle", "title"} /\ wres = "None"))

\* The query of a Load wait was answered with an error.
C23_Witness ==
    /\ wstate = "Load"
    /\ wpc = "idle"
    /\ wquery = "WebDriver"
    /\ wout = "ActionFailed"
    /\ driver

\* ---------------------------------------------------------------- channel claims
\* C24: the debugging command channel is absent from session creation until
\* the first execute_cdp call: as long as no execute_cdp call was made on an
\* open session, the adapter holds no channel.
C24_ChannelLazy ==
    (driver /\ \A c \in Callers : cur[c].op # "execute_cdp") => ~cdp

\* ---------------------------------------------------------------- error kind claims
\* C25: goto on a closed session fails with BrowserClosed, and a goto or a
\* script evaluation whose round trip fails returns ActionFailed (so these
\* calls return nothing but Ok, BrowserClosed or ActionFailed).
C25_TransportFailureIsActionFailed ==
    (pc[1] = "idle" /\ cur[1].op \in {"goto", "execute_script"}) =>
        /\ ~driver => result[1].kind = "BrowserClosed"
        /\ result[1].kind \in {"Ok", "BrowserClosed", "ActionFailed"}

\* ---------------------------------------------------------------- index claims
\* C26: the "last" marker is distinct from every index a caller can pass:
\* nth(n) resolves to position n when n < k and fails when n >= k, and only
\* a locator built by last() resolves to a position other than its index.
C26_LastMarkerDistinct ==
    (ListRead(1) /\ cur[1].ctor = "nth") =>
        IF cur[1].nth[1] < attempt[1].k
        THEN attempt[1].kind = "Ok" /\ attempt[1].idx = cur[1].nth[1]
        ELSE attempt[1].kind = "ElementNotFound"

\* One attempt of first(), nth(0) and the locator without index on the page
\* as it is: the same outcome and the same position.
SameResolution(sel, tf) ==
    LET base == Locator_new(sel)
        a == resolve_element(first(base).nth_index, sel, tf)
        b == resolve_element(nth(base, 0).nth_index, sel, tf)
        c == resolve_element(base.nth_index, sel, tf) IN
    /\ a.kind = b.kind /\ b.kind = c.kind
    /\ a.idx = b.idx /\ b.idx = c.idx
    /\ (driver /\ ~tf) => a.kind = (IF Count(sel, scope) > 0 THEN "Ok" ELSE "ElementNotFound")

\* C27: first(), nth(0) and a Locator with no index resolve alike on every
\* match list: to the element at position 0 when at least one element
\* matches, and to a not-found failure of the attempt, which the wait
\* retries, when none matches.
C27_FirstIsDefault ==
    /\ \A sel \in {".item", ".none"}, tf \in BOOLEAN : SameResolution(sel, tf)
    /\ (InLocator(1) /\ cur[1].ctor \in {"new", "first"}) =>
          /\ attempt[1].kind = "Ok" => (attempt[1].idx = 0 /\ attempt[1].k >= 1)
          /\ attempt[1].kind = "ElementNotFound" =>
                /\ attempt[1].k = 0
                /\ \/ pc[1] \in {"loc_sleep", "loc_resolve"}
                   \/ pc[1] = "idle" /\ result[1].kind = "Timeout"

\* first() has acted on the first of two matches after an attempt on an empty list.
C27_Witness ==
    /\ InLocator(1)
    /\ cur[1].ctor = "first"
    /\ pc[1] = "idle"
    /\ Len(evals[1]) >= 2
    /\ attempt[1] = [kind |-> "Ok", idx |-> 0, k |-> 2]
    /\ result[1].kind = "Ok"

\* C28: a locator action whose element was resolved but whose element
\* command failed does not return that failure: it sleeps and resolves and
\* acts again, so the only failure it returns for it is the final Timeout.
C28_ActionFailureRetried ==
    (InLocator(1) /\ pc[1] = "idle") => result[1].kind # "ActionFailed"

\* ---------------------------------------------------------------- frame wait claims
\* One turn of the wait for the iframe: the query changes no scope; on a
\* closed session it returns BrowserClosed; it sleeps only when the selector
\* matched nothing and budget is left; it goes on to enter the frame only
\* when the selector matched; what it returns is the query's own error or,
\* with nothing matched and the budget used up, Timeout naming the selector.
FrameWaitTurn ==
    (pc[1] = "fr_find_frame" /\ pc'[1] # "fr_find_frame") =>
        LET sel == Head(plan[1]) IN
        /\ scope' = scope
        /\ pc'[1] \in {"fr_sleep", "fr_enter", "idle"}
        /\ ~driver => (pc'[1] = "idle" /\ result'[1].kind = "BrowserClosed")
        /\ pc'[1] = "fr_sleep" =>
              (driver /\ Count(sel, scope) = 0 /\ elapsed'[1] < FrameTimeout)
        /\ pc'[1] = "fr_enter" => (driver /\ Count(sel, scope) > 0)
        /\ pc'[1] = "idle" =>
              /\ result'[1].kind \in {"BrowserClosed", "WebDriver", "Timeout"}
              /\ result'[1].kind = "Timeout" =>
                    /\ driver /\ Count(sel, scope) = 0
                    /\ elapsed[1] + 1 >= FrameTimeout
                    /\ result'[1].msg = "iframe not found: " \o sel

\* The sleep between two queries is one tick and sends nothing.
FrameWaitSleep ==
    (pc[1] = "fr_sleep" /\ pc'[1] # "fr_sleep") =>
        /\ pc'[1] = "fr_find_frame"
        /\ elapsed'[1] = Min(elapsed[1] + 1, FrameTimeout)
        /\ reqs'[1] = reqs[1]

\* The scope gets one frame deeper only by entering the element a query found.
EnteredAfterFound ==
    Len(scope') > Len(scope) =>
        /\ pc[1] = "fr_enter"
        /\ elem[1].sel = Head(plan[1])
        /\ scope' = Append(scope, elem[1].sel)

\* C29: the frame-switch wait retries only ElementNotFound: while the iframe
\* selector matches nothing it sleeps 100ms and queries again, and returns
\* Timeout naming the selector once its budget has elapsed; any other error
\* of the query, BrowserClosed included, is returned at once; the scope is
\* switched into the frame only after a successful query.
C29_FrameWaitRetriesNotFound ==
    /\ [][FrameWaitTurn]_vars
    /\ [][FrameWaitSleep]_vars
    /\ [][EnteredAfterFound]_vars

\* The wait for an iframe that never appeared has queried, slept, queried
\* again and timed out.
C29_Witness ==
    /\ pc[1] = "idle"
    /\ cur[1].op = "switch_to_frame_by_selector"
    /\ Len(reqs[1]) >= 2
    /\ result[1] = R("Timeout", "iframe not found: iframe#f1", 0)
    /\ scope = <<>>

\* ---------------------------------------------------------------- poll error claims
\* C30: a poll of the fallback whose script evaluation fails is followed by
\* another poll while budget remains, so a wait whose last poll failed
\* returns nothing but Timeout; BrowserClosed from a poll is returned at once.
C30_PollErrorRetried ==
    /\ (wpc = "idle" /\ wstate # "Load" /\ wquery = "WebDriver") => wout = "Timeout"
    /\ (wpc = "idle" /\ wstate # "Load" /\ wquery = "BrowserClosed") => wout = "BrowserClosed"

\* ---------------------------------------------------------------- timeout message claims
\* The text a message may put around the selector it names.
Around == {"", "'", "Timeout waiting for element '", "element not found: ", "click '"}

NamesSelector(msg, sel) == \E pre \in Around, post \in Around : msg = pre \o sel \o post

\* C31: the Timeout a locator action returns when its retry budget is used
\* up names the locator's selector, whichever public action it is.
C31_TimeoutNamesSelector ==
    (InLocator(1) /\ pc[1] = "idle" /\ result[1].kind = "Timeout") =>
        NamesSelector(result[1].msg, cur[1].sel)

\* ---------------------------------------------------------------- tracker claims
\* The step reads a message off the websocket.
ReadsMessage == wpc = "loop" /\ lastMsg'.seq # lastMsg.seq

\* The message read by the step is a requestWillBeSent that carries a request id.
ReadsRequest ==
    /\ ReadsMessage
    /\ lastMsg'.method = "Network.requestWillBeSent"
    /\ lastMsg'.requestId # "none"

ReadsFinished ==
    /\ ReadsMessage
    /\ lastMsg'.method \in {"Network.loadingFinished", "Network.loadingFailed"}

RequestSentEffect ==
    ReadsRequest =>
        /\ lastMsg'.requestId \in inflight'
        /\ inflight' = inflight \cup {lastMsg'.requestId}
        /\ idle_timer' = <<>>
        /\ ~snapshot'.network_idle
        /\ \A f \in Flags \ {"network_idle"} : snapshot'[f] = snapshot[f]

\* C32: after a requestWillBeSent with request id R has been processed, R is
\* in the in-flight set, no idle timer is armed and network-idle is false,
\* whatever the tracker state was before; dom-ready, load and committed are
\* as they were.
C32_RequestSentEffect == [][RequestSentEffect]_vars

\* The request B was read after the page became dom-ready, with A in flight.
C32_Witness ==
    /\ wpc = "loop"
    /\ lastMsg.method = "Network.requestWillBeSent"
    /\ lastMsg.requestId = "B"
    /\ inflight = {"A", "B"}
    /\ snapshot.commit
    /\ ~snapshot.network_idle
    /\ idle_timer = <<>>

\* C33: in every state of the tracker in which network-idle is true, the
\* in-flight request set is empty.
C33_IdleImpliesNoneInFlight ==
    (wpc \in {"loop", "done"} /\ snapshot.network_idle) => inflight = {}

\* C35: in every state of the event-driven wait an armed idle timer implies
\* an empty in-flight set, and every step that adds a request id to the set
\* leaves the timer disarmed.
C35_ArmedImpliesNoneInFlight ==
    /\ [](idle_timer # <<>> => inflight = {})
    /\ [][(wpc = "loop" /\ inflight' \ inflight # {}) => idle_timer' = <<>>]_vars

\* The timer armed by the end of request A is running.
C35_Witness ==
    /\ wpc = "loop"
    /\ idle_timer # <<>>
    /\ idle_timer[1] < IdleTicks
    /\ lastMsg.method \in {"Network.loadingFinished", "Network.loadingFailed"}
    /\ lastMsg.requestId = "A"
    /\ inflight = {}

\* What one step of the loop may do to the idle timer.
TimerKeepsDeadline ==
    wpc = "loop" =>
        /\ (ReadsMessage /\ idle_timer # <<>> /\ ~ReadsRequest) => idle_timer' = idle_timer
        /\ (idle_timer # <<>> /\ idle_timer' = <<>>) => ReadsRequest \/ idle_timer = <<0>>
        /\ (idle_timer # <<>> /\ idle_timer' # <<>>) =>
              idle_timer'[1] \in {idle_timer[1], idle_timer[1] - 1}
        /\ (idle_timer = <<>> /\ idle_timer' # <<>>) =>
              /\ ReadsFinished
              /\ inflight' = {}
              /\ idle_timer' = <<IdleTicks>>

\* C36: an armed idle timer keeps its deadline: a message other than a
\* requestWillBeSent with a request id neither cancels nor restarts it (it only
\* runs down with time and fires); it is cancelled only by a requestWillBeSent
\* with a request id, and a timer is armed only by a loadingFinished /
\* loadingFailed that finds the set empty and no timer armed.
C36_TimerKeepsDeadline == [][TimerKeepsDeadline]_vars

\* A loadingFinished arrived while the timer was already running.
C36_Witness ==
    /\ wpc = "loop"
    /\ idle_timer # <<>>
    /\ idle_timer[1] < IdleTicks
    /\ silence = 0
    /\ lastMsg.method = "Network.loadingFinished"
    /\ lastMsg.requestId = "none"

Snapshots == [Flags -> BOOLEAN]

\* C38: every snapshot that satisfies a wait for Load satisfies a wait for
\* DomContentLoaded, and every snapshot that satisfies DomContentLoaded
\* satisfies Commit: of every snapshot there is, and of the one the wait holds.
C38_LoadStatesOrdered ==
    \A snap \in Snapshots \cup {snapshot} :
        /\ load_state_reached("Load", snap) => load_state_reached("DomContentLoaded", snap)
        /\ load_state_reached("DomContentLoaded", snap) => load_state_reached("Commit", snap)

\* The load event was seen before any dom-ready or commit event.
C38_Witness ==
    /\ wpc = "loop"
    /\ snapshot.load
    /\ ~snapshot.domcontentloaded
    /\ ~snapshot.commit
    /\ wstate = "NetworkIdle"

\* ---------------------------------------------------------------- wrapped action claims
\* The step is the restore that ends the frame action of caller 1.
Restores == pc[1] = "fr_restore" /\ pc'[1] = "idle"

\* The restore of the step was acknowledged: the scope is the top-level one.
RestoreAcknowledged == scope' = <<>>

RestoreError == {R("BrowserClosed", "", 0), R("WebDriver", "SwitchToFrameDefault", 0)}

WrappedResultReturned ==
    Restores =>
        /\ scope # <<>>
        /\ RestoreAcknowledged => result'[1] = inner[1]
        /\ ~RestoreAcknowledged => result'[1] \in RestoreError

\* C37: a frame action returns the wrapped action's own result, success or
\* error, unchanged, whenever the restore to the top-level scope succeeds; only
\* when the restore itself fails does it return the restore's error instead.
C37_WrappedResultReturned == [][WrappedResultReturned]_vars

\* The element command of the wrapped action failed, the restore succeeded
\* and the action returned the command's error.
C37_Witness ==
    /\ Returned(1)
    /\ SwitchedIn(1)
    /\ result[1] = R("WebDriver", "element", 0)
    /\ reqs[1][Len(reqs[1])] = "SwitchToFrameDefault"
    /\ scope = <<>>

\* The step is the wrapped action's query of its target.
QueriesTarget == pc[1] = "fr_find" /\ pc'[1] # pc[1]

TargetQueriedOnce ==
    /\ QueriesTarget =>
          /\ evals[1] = <<>>
          /\ Len(evals'[1]) = 1
          /\ Count(cur[1].sel, scope) = 0 =>
                /\ pc'[1] = "fr_restore"
                /\ inner'[1] \in {R("ElementNotFound", cur[1].sel, 0),
                                  R("WebDriver", "FindElement", 0)}
    /\ SwitchedIn(1) => pc'[1] \notin {"fr_find", "fr_sleep", "fr_find_frame"}
    /\ (Restores /\ RestoreAcknowledged /\ inner[1].kind = "ElementNotFound") =>
          result'[1] = R("ElementNotFound", cur[1].sel, 0)

\* C40: inside a frame the target is queried exactly once per action, after
\* the chain has been entered: when it does not match at that moment the
\* action goes straight to the restore and fails with ElementNotFound (no
\* Timeout, no sleep, no second query), even if the element appears before the
\* frame locator's timeout.
C40_TargetQueriedOnce ==
    /\ [][TargetQueriedOnce]_vars
    /\ [](cur[1].op \in FrameOps => Len(evals[1]) <= 1)
    /\ []((Returned(1) /\ SwitchedIn(1)) => result[1].kind # "Timeout")

\* The action failed with ElementNotFound on #btn, and #btn is in the
\* frame that was queried by the time the action returns.
C40_Witness ==
    /\ Returned(1)
    /\ cur[1].sel = "#btn"
    /\ result[1].kind = "ElementNotFound"
    /\ Len(evals[1]) = 1
    /\ Count("#btn", evals[1][1]) = 1

\* ---------------------------------------------------------------- failed quit claims
\* The close() that caller 1 made last returned the error of its quit request.
QuitFailed == pc[1] = "idle" /\ cur[1].op = "close" /\ result[1] = R("WebDriver", "Quit", 0)

\* What the call that follows a failed quit does.
AfterFailedQuit ==
    QuitFailed =>
        /\ ~driver' /\ ~cdp'
        /\ quitCount' = quitCount
        /\ (pc'[1] = "idle" /\ cur'[1].op \in AdapterOps) =>
              /\ result'[1].kind = "BrowserClosed"
              /\ reqs'[1] = <<>>
        /\ cur'[1].op = "is_closed" => result'[1].kind = "True"
        /\ closeCalls' # closeCalls =>
              /\ result'[1] = R("Ok", "", 0)
              /\ reqs'[1] = <<>>

\* C39: when the quit request fails during close(), close() returns the
\* error but the session is closed all the same: the handle and the debugging
\* channel are gone, is_closed() is true, the next operation fails with
\* BrowserClosed without a request, and a second close() returns success
\* without sending quit again.
C39_ClosedThoughQuitFailed ==
    /\ [](QuitFailed => ~driver /\ ~cdp /\ quitCount = 1 /\ reqs[1] = <<"Quit">>)
    /\ [][AfterFailedQuit]_vars

\* The first close() has just returned the quit's error.
C39_Witness ==
    /\ QuitFailed
    /\ closeCalls = 1
    /\ ~driver
    /\ ~cdp

\* ---------------------------------------------------------------- Browser.close claims
BrowserOps == {"new_context", "new_page", "browser_new_page", "context_close", "page_close",
               "page_is_closed", "browser_close"} \cup PageOps

\* Every page of every tracked context reports is_closed().
AllPagesClosed == \A k \in 1..Len(contexts) : \A i \in 1..Len(contexts[k]) : contexts[k][i]

\* What every state shows once Browser.close() has run (the session is
\* closed by nothing else): the call made last, if any followed, was refused.
BrowserClosedRefuses ==
    ~driver =>
        /\ closeCalls >= 1
        /\ ~cdp
        /\ AllPagesClosed
        /\ cur[1].op \in {"new_context", "browser_new_page"} =>
              result[1] = R("BrowserClosed", "", 0)
        /\ cur[1].op = "new_page" => result[1] = R("ContextClosed", "", 0)
        /\ cur[1].op \in PageOps => result[1] = R("PageClosed", "", 0)
        /\ cur[1].op = "page_is_closed" => result[1].kind = "True"
        /\ cur[1].op \in BrowserOps \ {"browser_close"} => reqs[1] = <<>>

\* C34: after Browser.close() has returned, with success or with the error of
\* the quit request, every page of every tracked context reports is_closed()
\* and the session is closed; from then on new_context fails with
\* BrowserClosed, BrowserContext.new_page with ContextClosed and the page
\* operations with PageClosed.
C34_BrowserCloseClosesAll ==
    /\ [](cur[1].op = "browser_close" => ~driver /\ AllPagesClosed)
    /\ []BrowserClosedRefuses
    /\ [][~driver => contexts' = contexts]_vars

\* Two contexts, one with two pages, the browser closed with a failing quit,
\* and a page operation refused after that.
C34_Witness ==
    /\ ~driver
    /\ Len(contexts) = 2
    /\ Len(contexts[1]) = 2
    /\ quitCount = 1
    /\ cur[1].op = "page_goto"
    /\ result[1].kind = "PageClosed"

====
